---- MODULE Spec2Model ----
(***************************************************************************)
(* A model of the rule builder: the path codec, the condition tree and its *)
(* path-addressed mutators, the validator, the mutex-guarded rule store    *)
(* with the handlers that read, mutate and write back the rule, the        *)
(* operator resolvers and the session store.                               *)
(*                                                                         *)
(* Strings that the code splits or parses (path tokens) are sequences of   *)
(* one-character strings; tokens that the code only compares or decodes as *)
(* a whole (field and operator wire tokens, form values) are TLA+ strings. *)
(***************************************************************************)
EXTENDS Integers, Sequences, FiniteSets, TLC

VARIABLES
    \* path codec: the drawn index sequence, its token, the decoded token
    cxs, ctoken, cdecoded, cencoded, cpc,
    \* rule store: the mutex-guarded Option<Rule> and the ids handed out
    store, nextId,
    \* the task that holds the store's mutex, if any
    mutex,
    \* handler tasks: position, request, the Rule cloned by get_rule, the
    \* mutated clone given to update_rule, the response
    pc, req, snap, local, resp,
    \* history of the store: requests admitted, update_rule calls, and per
    \* task the number of writes seen at its read and the rank of its write
    nreq, nwrites, seenW, wroteAt, written,
    \* tree component on its own: a Rule, the ids handed out, and the last
    \* call made on it with the tree it was made on
    trule, tnext, tlast,
    \* session store: the map of sessions, the clock, the ids handed out, the
    \* last call with its outcome; and, as history, when each session was
    \* created and which were removed by delete_session
    sessions, now, sessNext, slast, screated, sdeleted,
    \* operator resolvers: the query and the response to it
    rquery, rlast,
    \* and, as history, the response of each resolver called on the query
    ranswers,
    \* wire tokens: a Field and an Operator, the tokens as_str gives for them,
    \* and what the serde decoder makes of the tokens
    vin, vtok, vout

codecVars == <<cxs, ctoken, cdecoded, cencoded, cpc>>
storeVars == <<store, nextId, mutex, pc, req, snap, local, resp,
               nreq, nwrites, seenW, wroteAt, written>>
treeVars == <<trule, tnext, tlast>>
sessVars == <<sessions, now, sessNext, slast, screated, sdeleted>>
resVars == <<rquery, rlast, ranswers>>
vocabVars == <<vin, vtok, vout>>
vars == <<codecVars, storeVars, treeVars, sessVars, resVars, vocabVars>>
notCodec == <<storeVars, treeVars, sessVars, resVars, vocabVars>>
notStore == <<codecVars, treeVars, sessVars, resVars, vocabVars>>
notTree == <<codecVars, storeVars, sessVars, resVars, vocabVars>>
notSess == <<codecVars, storeVars, treeVars, resVars, vocabVars>>
notRes == <<codecVars, storeVars, treeVars, sessVars, vocabVars>>
notVocab == <<codecVars, storeVars, treeVars, sessVars, resVars>>

(***************************************************************************)
(* Bounds of the model.                                                    *)
(***************************************************************************)
MaxPathLen == 3      \* longest index sequence given to the codec
MaxIndex == 11       \* largest index given to the codec (two decimal digits)
MaxDepth == 2        \* longest index sequence in a request's path token
MaxChild == 1        \* largest index in a request's path token
MaxNodes == 3        \* nodes added to the tree driven on its own
MaxReqs == 3         \* requests served in a run, one handler at a time
MaxConcReqs == 3     \* requests served in a run of concurrent handlers
MaxSessions == 2     \* sessions created in a run
MaxTime == 12        \* the clock stops here
MaxValueLen == 3     \* longest literal given to get_operators_for_value
MaxTokenLen == 5     \* longest path token drawn character by character
MaxLockReqs == 3     \* requests served in a run that follows the mutex
MaxAuthReqs == 2     \* requests served in a run behind the auth middleware
MaxLogins == 1       \* sessions created in a run behind the auth middleware

\* Duration::from_secs(10 * 60); the model's clock counts minutes
SESSION_DURATION == 10

SeqsUpTo(S, n) == UNION {[1..k -> S] : k \in 0..n}

Procs == {1, 2}

CodecIdle ==
    /\ cxs = <<>>
    /\ ctoken = <<>>
    /\ cdecoded = <<>>
    /\ cencoded = <<>>
    /\ cpc = "off"

TreeIdle ==
    /\ trule = <<>>
    /\ tnext = 0
    /\ tlast = <<>>

SessIdle ==
    /\ sessions = <<>>
    /\ now = 0
    /\ sessNext = 0
    /\ slast = <<>>
    /\ screated = <<>>
    /\ sdeleted = {}

ResIdle ==
    /\ rquery = <<>>
    /\ rlast = <<>>
    /\ ranswers = <<>>

VocabIdle ==
    /\ vin = <<>>
    /\ vtok = <<>>
    /\ vout = <<>>

\* no store, no handler
StoreIdle ==
    /\ store = [some |-> FALSE]
    /\ nextId = 0
    /\ mutex = 0
    /\ pc = [p \in Procs |-> "off"]
    /\ req = [p \in Procs |-> <<>>]
    /\ snap = [p \in Procs |-> <<>>]
    /\ local = [p \in Procs |-> <<>>]
    /\ resp = [p \in Procs |-> <<>>]
    /\ nreq = 0
    /\ nwrites = 0
    /\ seenW = [p \in Procs |-> 0]
    /\ wroteAt = [p \in Procs |-> 0]
    /\ written = {}

(***************************************************************************)
(* Text helpers.                                                           *)
(***************************************************************************)
Digits == <<"0", "1", "2", "3", "4", "5", "6", "7", "8", "9">>

IsDigit(c) == \E i \in 1..10 : Digits[i] = c

DigitVal(c) == (CHOOSE i \in 1..10 : Digits[i] = c) - 1

\* usize::to_string: canonical decimal, no sign, no leading zeros
RECURSIVE usize_to_string(_)
usize_to_string(n) ==
    IF n < 10 THEN <<Digits[n + 1]>>
    ELSE usize_to_string(n \div 10) \o <<Digits[(n % 10) + 1]>>

\* the digits of usize::MAX = 2^64 - 1
UsizeMaxDigits ==
    <<"1","8","4","4","6","7","4","4","0","7","3","7","0","9","5","5","1","6","1","5">>

RECURSIVE StripZeros(_)
StripZeros(s) ==
    IF Len(s) > 1 /\ Head(s) = "0" THEN StripZeros(Tail(s)) ELSE s

RECURSIVE DigitsLeq(_, _)
\* s <= t for two digit strings of the same length
DigitsLeq(s, t) ==
    IF s = <<>> THEN TRUE
    ELSE IF Head(s) # Head(t) THEN DigitVal(Head(s)) < DigitVal(Head(t))
    ELSE DigitsLeq(Tail(s), Tail(t))

FitsUsize(ds) ==
    LET sig == StripZeros(ds) IN
    \/ Len(sig) < Len(UsizeMaxDigits)
    \/ Len(sig) = Len(UsizeMaxDigits) /\ DigitsLeq(sig, UsizeMaxDigits)

RECURSIVE DigitsValue(_, _)
DigitsValue(ds, acc) ==
    IF ds = <<>> THEN acc ELSE DigitsValue(Tail(ds), acc * 10 + DigitVal(Head(ds)))

ParseErr == [ok |-> FALSE, val |-> 0]

\* <usize as FromStr>::from_str: an optional leading '+', then one or more
\* decimal digits (leading zeros allowed); anything else, an empty string or a
\* value above usize::MAX is an error.
parse_usize(s) ==
    LET ds == IF s # <<>> /\ Head(s) = "+" THEN Tail(s) ELSE s IN
    IF ds = <<>> THEN ParseErr
    ELSE IF \E i \in 1..Len(ds) : ~IsDigit(ds[i]) THEN ParseErr
    ELSE IF ~FitsUsize(ds) THEN ParseErr
    ELSE [ok |-> TRUE, val |-> DigitsValue(ds, 0)]

RECURSIVE SplitAcc(_, _, _)
\* str::split('-'): the segments between the dashes, empty ones included
SplitAcc(s, cur, acc) ==
    IF s = <<>> THEN Append(acc, cur)
    ELSE IF Head(s) = "-" THEN SplitAcc(Tail(s), <<>>, Append(acc, cur))
    ELSE SplitAcc(Tail(s), Append(cur, Head(s)), acc)

split_dash(s) == SplitAcc(s, <<>>, <<>>)

RECURSIVE FilterMapParse(_)
\* .filter_map(|s| s.parse().ok()).collect()
FilterMapParse(segs) ==
    IF segs = <<>> THEN <<>>
    ELSE LET r == parse_usize(Head(segs)) IN
         IF r.ok THEN <<r.val>> \o FilterMapParse(Tail(segs))
         ELSE FilterMapParse(Tail(segs))

RECURSIVE TakeWhileParse(_)
\* the segments parsed up to the first one that does not parse
TakeWhileParse(segs) ==
    IF segs = <<>> THEN <<>>
    ELSE LET r == parse_usize(Head(segs)) IN
         IF r.ok THEN <<r.val>> \o TakeWhileParse(Tail(segs)) ELSE <<>>

\* a parse that stops at the first segment that is no number
parse_path_stop(path) ==
    IF path = <<"0">> THEN <<>> ELSE TakeWhileParse(Tail(split_dash(path)))

\* a path that forgets to skip the root marker
parse_path_noskip(path) ==
    IF path = <<"0">> THEN <<>> ELSE FilterMapParse(split_dash(path))

parse_path(path) ==
    IF path = <<"0">> THEN <<>>
    ELSE FilterMapParse(Tail(split_dash(path)))

RECURSIVE PushIndices(_, _)
PushIndices(result, indices) ==
    IF indices = <<>> THEN result
    ELSE PushIndices(result \o <<"-">> \o usize_to_string(Head(indices)), Tail(indices))

\* an encoding that starts from the empty string instead of the root marker
path_to_string_nomarker(indices) ==
    IF indices = <<>> THEN <<"0">> ELSE Tail(PushIndices(<<>>, indices))

path_to_string(indices) ==
    IF indices = <<>> THEN <<"0">> ELSE PushIndices(<<"0">>, indices)

(***************************************************************************)
(* Vocabulary: fields, operators and their wire tokens.  A variant is a    *)
(* string naming the Rust variant; its wire token is a different string.   *)
(* Wire tokens in the model hold no quote or backslash, so wrapping one    *)
(* in quotes gives a JSON string whose content is the token itself.        *)
(***************************************************************************)
Field_all ==
    <<"TransactionAmount", "TransactionCurrency", "UserCountry", "UserAge",
      "IpAddress", "DeviceFingerprint", "TransactionCount24h", "AccountAge">>

Field_as_str(f) ==
    CASE f = "TransactionAmount" -> "transaction_amount"
      [] f = "TransactionCurrency" -> "transaction_currency"
      [] f = "UserCountry" -> "user_country"
      [] f = "UserAge" -> "user_age"
      [] f = "IpAddress" -> "ip_address"
      [] f = "DeviceFingerprint" -> "device_fingerprint"
      [] f = "TransactionCount24h" -> "transaction_count_24h"
      [] f = "AccountAge" -> "account_age"

DecodeErr == [ok |-> FALSE, val |-> "Err"]

Decoded(v) == [ok |-> TRUE, val |-> v]

\* a decoder that knows only the names rename_all = "snake_case" makes
Field_deserialize_norename(tok) ==
    CASE tok = "transaction_amount" -> Decoded("TransactionAmount")
      [] tok = "transaction_currency" -> Decoded("TransactionCurrency")
      [] tok = "user_country" -> Decoded("UserCountry")
      [] tok = "user_age" -> Decoded("UserAge")
      [] tok = "ip_address" -> Decoded("IpAddress")
      [] tok = "device_fingerprint" -> Decoded("DeviceFingerprint")
      [] tok = "transaction_count24h" -> Decoded("TransactionCount24h")
      [] tok = "account_age" -> Decoded("AccountAge")
      [] OTHER -> DecodeErr

\* serde's derived Deserialize for Field: rename_all = "snake_case", with
\* TransactionCount24h renamed to "transaction_count_24h"
Field_deserialize(tok) ==
    CASE tok = "transaction_amount" -> Decoded("TransactionAmount")
      [] tok = "transaction_currency" -> Decoded("TransactionCurrency")
      [] tok = "user_country" -> Decoded("UserCountry")
      [] tok = "user_age" -> Decoded("UserAge")
      [] tok = "ip_address" -> Decoded("IpAddress")
      [] tok = "device_fingerprint" -> Decoded("DeviceFingerprint")
      [] tok = "transaction_count_24h" -> Decoded("TransactionCount24h")
      [] tok = "account_age" -> Decoded("AccountAge")
      [] OTHER -> DecodeErr

Operator_all ==
    <<"Equals", "NotEquals", "GreaterThan", "LessThan",
      "GreaterThanOrEqual", "LessThanOrEqual", "Contains", "In">>

Operator_as_str(o) ==
    CASE o = "Equals" -> "equals"
      [] o = "NotEquals" -> "not_equals"
      [] o = "GreaterThan" -> "greater_than"
      [] o = "LessThan" -> "less_than"
      [] o = "GreaterThanOrEqual" -> "greater_than_or_equal"
      [] o = "LessThanOrEqual" -> "less_than_or_equal"
      [] o = "Contains" -> "contains"
      [] o = "In" -> "in"

\* serde's derived Deserialize for Operator: rename_all = "snake_case"
Operator_deserialize(tok) ==
    CASE tok = "equals" -> Decoded("Equals")
      [] tok = "not_equals" -> Decoded("NotEquals")
      [] tok = "greater_than" -> Decoded("GreaterThan")
      [] tok = "less_than" -> Decoded("LessThan")
      [] tok = "greater_than_or_equal" -> Decoded("GreaterThanOrEqual")
      [] tok = "less_than_or_equal" -> Decoded("LessThanOrEqual")
      [] tok = "contains" -> Decoded("Contains")
      [] tok = "in" -> Decoded("In")
      [] OTHER -> DecodeErr

\* Option<String>: <<>> is None, <<s>> is Some(s)
NoneStr == <<>>

SomeStr(s) == <<s>>

unwrap_or_default(o) == IF o = <<>> THEN "" ELSE o[1]

OperandField(f) == [type |-> "field", field |-> f, value |-> ""]

OperandValue(v) == [type |-> "value", field |-> "", value |-> v]

(***************************************************************************)
(* The condition tree.  A node is a record; a Group carries its children   *)
(* as a sequence, child i of the code being element i + 1 here.            *)
(***************************************************************************)
Leaf(id, left, operator, right) ==
    [type |-> "leaf", id |-> id, left |-> left, operator |-> operator, right |-> right]

Group(id, operator, children) ==
    [type |-> "group", id |-> id, operator |-> operator, children |-> children]

is_group(node) == node.type = "group"

is_leaf(node) == node.type = "leaf"

NoNode == [some |-> FALSE]

SomeNode(n) == [some |-> TRUE, val |-> n]

RECURSIVE get_at_path_leafstop(_, _)
\* a lookup that stops at a Leaf and hands it out, whatever is left of the path
get_at_path_leafstop(self, path) ==
    IF path = <<>> THEN SomeNode(self)
    ELSE IF is_group(self)
         THEN IF Head(path) + 1 \in DOMAIN self.children
              THEN get_at_path_leafstop(self.children[Head(path) + 1], Tail(path))
              ELSE NoNode
         ELSE SomeNode(self)

RECURSIVE get_at_path(_, _)
get_at_path(self, path) ==
    IF path = <<>> THEN SomeNode(self)
    ELSE IF is_group(self)
         THEN IF Head(path) + 1 \in DOMAIN self.children
              THEN get_at_path(self.children[Head(path) + 1], Tail(path))
              ELSE NoNode
         ELSE NoNode

\* get_at_path_mut walks exactly as get_at_path and hands out the node in place
get_at_path_mut(self, path) == get_at_path(self, path)

RECURSIVE StoreAt(_, _, _)
\* the tree after a write through the reference get_at_path_mut(self, path)
\* gave out: the node at path becomes new, everything else stays
StoreAt(self, path, new) ==
    IF path = <<>> THEN new
    ELSE [self EXCEPT !.children[Head(path) + 1] = StoreAt(@, Tail(path), new)]

\* Vec::push
VecPush(v, x) == Append(v, x)

\* Vec::remove(i), for i < len: the later elements shift left by one
VecRemove(v, i) ==
    [k \in 1..(Len(v) - 1) |-> IF k <= i THEN v[k] ELSE v[k + 1]]

\* an insertion at the front instead of the back
add_child_front(self, path, child) ==
    LET t == get_at_path_mut(self, path) IN
    IF t.some /\ is_group(t.val)
    THEN [ok |-> TRUE,
          node |-> StoreAt(self, path,
                           [t.val EXCEPT !.children = <<child>> \o @])]
    ELSE [ok |-> FALSE, node |-> self]

\* an add that gives a Leaf a list of children when the path leads to one
add_child_under_leaf(self, path, child) ==
    LET t == get_at_path_mut(self, path) IN
    IF t.some
    THEN [ok |-> TRUE,
          node |-> StoreAt(self, path,
                           IF is_group(t.val)
                           THEN [t.val EXCEPT !.children = VecPush(@, child)]
                           ELSE [type |-> "leaf", id |-> t.val.id, left |-> t.val.left,
                                 operator |-> t.val.operator, right |-> t.val.right,
                                 children |-> <<child>>])]
    ELSE [ok |-> FALSE, node |-> self]

\* an add that, when the path leads to no Group, appends to self instead
add_child_or_self(self, path, child) ==
    LET t == get_at_path_mut(self, path) IN
    IF t.some /\ is_group(t.val)
    THEN [ok |-> TRUE,
          node |-> StoreAt(self, path,
                           [t.val EXCEPT !.children = VecPush(@, child)])]
    ELSE [ok |-> FALSE,
          node |-> IF is_group(self)
                   THEN [self EXCEPT !.children = VecPush(@, child)] ELSE self]

\* ok is the returned bool, node is self after the call
add_child_at_path(self, path, child) ==
    LET t == get_at_path_mut(self, path) IN
    IF t.some /\ is_group(t.val)
    THEN [ok |-> TRUE,
          node |-> StoreAt(self, path,
                           [t.val EXCEPT !.children = VecPush(@, child)])]
    ELSE [ok |-> FALSE, node |-> self]

\* a removal that is off by one: it removes the child after the addressed one
\* when there is one
delete_next(self, path) ==
    IF path = <<>> THEN [ok |-> FALSE, node |-> self]
    ELSE LET parent_path == SubSeq(path, 1, Len(path) - 1)
             child_index == path[Len(path)]
             t == get_at_path_mut(self, parent_path)
         IN IF t.some /\ is_group(t.val) /\ child_index < Len(t.val.children)
            THEN [ok |-> TRUE,
                  node |-> StoreAt(self, parent_path,
                               [t.val EXCEPT !.children =
                                   VecRemove(@, IF child_index + 1 < Len(@)
                                                THEN child_index + 1
                                                ELSE child_index)])]
            ELSE [ok |-> FALSE, node |-> self]

\* a delete without the guard on the empty path: the root's children go
delete_unguarded(self, path) ==
    IF path = <<>>
    THEN [ok |-> TRUE,
          node |-> IF is_group(self) THEN [self EXCEPT !.children = <<>>] ELSE self]
    ELSE LET parent_path == SubSeq(path, 1, Len(path) - 1)
             child_index == path[Len(path)]
             t == get_at_path_mut(self, parent_path)
         IN IF t.some /\ is_group(t.val) /\ child_index < Len(t.val.children)
            THEN [ok |-> TRUE,
                  node |-> StoreAt(self, parent_path,
                               [t.val EXCEPT !.children = VecRemove(@, child_index)])]
            ELSE [ok |-> FALSE, node |-> self]

\* a delete that takes the last child when the index is past the end
delete_clamped(self, path) ==
    IF path = <<>> THEN [ok |-> FALSE, node |-> self]
    ELSE LET parent_path == SubSeq(path, 1, Len(path) - 1)
             child_index == path[Len(path)]
             t == get_at_path_mut(self, parent_path)
         IN IF t.some /\ is_group(t.val) /\ t.val.children # <<>>
            THEN [ok |-> TRUE,
                  node |-> StoreAt(self, parent_path,
                               [t.val EXCEPT !.children =
                                   VecRemove(@, IF child_index < Len(@)
                                                THEN child_index ELSE Len(@) - 1)])]
            ELSE [ok |-> FALSE, node |-> self]

\* a delete that takes the addressed node out and leaves its children in its
\* place
delete_splice(self, path) ==
    IF path = <<>> THEN [ok |-> FALSE, node |-> self]
    ELSE LET parent_path == SubSeq(path, 1, Len(path) - 1)
             child_index == path[Len(path)]
             t == get_at_path_mut(self, parent_path)
         IN IF t.some /\ is_group(t.val) /\ child_index < Len(t.val.children)
            THEN [ok |-> TRUE,
                  node |-> StoreAt(self, parent_path,
                               [t.val EXCEPT !.children =
                                   SubSeq(@, 1, child_index)
                                   \o (IF is_group(@[child_index + 1])
                                       THEN @[child_index + 1].children ELSE <<>>)
                                   \o SubSeq(@, child_index + 2, Len(@))])]
            ELSE [ok |-> FALSE, node |-> self]

\* a delete that removes the parent's first child whatever the index
delete_first(self, path) ==
    IF path = <<>> THEN [ok |-> FALSE, node |-> self]
    ELSE LET parent_path == SubSeq(path, 1, Len(path) - 1)
             child_index == path[Len(path)]
             t == get_at_path_mut(self, parent_path)
         IN IF t.some /\ is_group(t.val) /\ child_index < Len(t.val.children)
            THEN [ok |-> TRUE,
                  node |-> StoreAt(self, parent_path,
                               [t.val EXCEPT !.children = VecRemove(@, 0)])]
            ELSE [ok |-> FALSE, node |-> self]

delete_at_path(self, path) ==
    IF path = <<>> THEN [ok |-> FALSE, node |-> self]
    ELSE LET parent_path == SubSeq(path, 1, Len(path) - 1)
             child_index == path[Len(path)]
             t == get_at_path_mut(self, parent_path)
         IN IF t.some /\ is_group(t.val) /\ child_index < Len(t.val.children)
            THEN [ok |-> TRUE,
                  node |-> StoreAt(self, parent_path,
                               [t.val EXCEPT !.children = VecRemove(@, child_index)])]
            ELSE [ok |-> FALSE, node |-> self]

(***************************************************************************)
(* The rule and its validator.  Uuids are naturals handed out in order.    *)
(***************************************************************************)
Rule_new(id, rootId, name, description) ==
    [id |-> id, name |-> name, description |-> description,
     root |-> Group(rootId, "And", <<>>), action |-> "flag_for_review"]

ErrName == "Rule name cannot be empty"

ErrGroup == "Group must have at least one condition"

ErrValue == "Condition value cannot be empty"

RECURSIVE validate_node(_, _)
RECURSIVE validate_children(_, _)
\* errors is the list so far; the result is the list after the visit
validate_node(node, errors) ==
    IF is_leaf(node)
    THEN LET e1 == IF node.left.type = "value" /\ node.left.value = ""
                   THEN Append(errors, ErrValue) ELSE errors
         IN IF node.right.type = "value" /\ node.right.value = ""
            THEN Append(e1, ErrValue) ELSE e1
    ELSE validate_children(node.children,
                           IF node.children = <<>>
                           THEN Append(errors, ErrGroup) ELSE errors)

validate_children(children, errors) ==
    IF children = <<>> THEN errors
    ELSE validate_children(Tail(children), validate_node(Head(children), errors))

\* a validator that stops at the first error
validate_failfast(rule) ==
    LET errors == validate_node(rule.root,
                                IF rule.name = "" THEN <<ErrName>> ELSE <<>>)
    IN IF errors = <<>> THEN [ok |-> TRUE, errors |-> <<>>]
       ELSE [ok |-> FALSE, errors |-> <<Head(errors)>>]

\* Ok(()) is [ok |-> TRUE, errors |-> <<>>], Err(errors) is [ok |-> FALSE, ...]
validate(rule) ==
    LET errors == validate_node(rule.root,
                                IF rule.name = "" THEN <<ErrName>> ELSE <<>>)
    IN IF errors = <<>> THEN [ok |-> TRUE, errors |-> <<>>]
       ELSE [ok |-> FALSE, errors |-> errors]

(***************************************************************************)
(* The tree component on its own: a Rule made by Rule::new, then calls of  *)
(* add_child_at_path, delete_at_path and validate with drawn arguments.    *)
(***************************************************************************)
IndexPaths == SeqsUpTo(0..MaxChild, MaxDepth)

RuleNames == {"", "Fraud Detection Rule"}

\* the nodes a call may add, all with the given id
NewNodes(id) ==
    {Group(id, "And", <<>>),
     Leaf(id, OperandField("TransactionAmount"), "GreaterThan", OperandValue("1000")),
     Leaf(id, OperandValue(""), "Equals", OperandField("UserCountry")),
     Leaf(id, OperandValue(""), "Contains", OperandValue(""))}

\* the paths of the nodes of a tree
RECURSIVE NodePaths(_)
NodePaths(node) ==
    {<<>>} \cup
    (IF is_group(node)
     THEN UNION {{<<i - 1>> \o q : q \in NodePaths(node.children[i])} :
                 i \in DOMAIN node.children}
     ELSE {})

\* what render_tree_node writes for one node: the class of its div, the path
\* token in its id and in the urls of its controls, the indent, the controls,
\* and the node it was written for
Element(class, path, indent, controls, node) ==
    [class |-> class, path |-> path, indent |-> indent,
     controls |-> controls, node |-> node]

\* a child path that counts the children from one
child_path_onebased(path, i) == path \o <<"-">> \o usize_to_string(i + 1)

\* format!("{}-{}", path, i)
child_path(path, i) == path \o <<"-">> \o usize_to_string(i)

RECURSIVE render_tree_node(_, _, _)
RECURSIVE render_children(_, _, _, _)
\* the elements of the html in the order they are written, the node's own
\* div first
render_tree_node(node, path, depth) ==
    IF is_leaf(node)
    THEN <<Element("condition-leaf", path, depth * 20, {"delete"}, node)>>
    ELSE <<Element("condition-group", path, depth * 20,
                   {"operator", "add-condition-form", "add-group"}
                   \cup (IF path = <<"0">> THEN {} ELSE {"delete"}),
                   node)>>
         \o render_children(node.children, path, 0, depth + 1)

\* children.iter().enumerate().map(...) from the i-th child on
render_children(children, path, i, depth) ==
    IF i >= Len(children) THEN <<>>
    ELSE render_tree_node(children[i + 1], child_path(path, i), depth)
         \o render_children(children, path, i + 1, depth)

NoCall == [op |-> "none", path |-> <<>>, pre |-> <<>>, ok |-> FALSE, result |-> <<>>]

Call(op, path, pre, ok, result) ==
    [op |-> op, path |-> path, pre |-> pre, ok |-> ok, result |-> result]

InitTree ==
    /\ \E name \in RuleNames : trule = Rule_new(0, 1, name, "")
    /\ tnext = 2
    /\ tlast = NoCall
    /\ CodecIdle
    /\ StoreIdle
    /\ SessIdle
    /\ ResIdle
    /\ VocabIdle

TreeAdd(path, child) ==
    /\ tlast = NoCall
    /\ tnext < 2 + MaxNodes
    /\ LET r == add_child_at_path(trule.root, path, child) IN
       /\ trule' = [trule EXCEPT !.root = r.node]
       /\ tlast' = Call("add", path, trule.root, r.ok, child)
       /\ tnext' = IF r.ok THEN tnext + 1 ELSE tnext
    /\ UNCHANGED notTree

TreeDelete(path) ==
    /\ tlast = NoCall
    /\ LET r == delete_at_path(trule.root, path) IN
       /\ trule' = [trule EXCEPT !.root = r.node]
       /\ tlast' = Call("delete", path, trule.root, r.ok, <<>>)
    /\ UNCHANGED <<tnext, notTree>>

TreeValidate ==
    /\ tlast = NoCall
    /\ tlast' = Call("validate", <<>>, trule.root, TRUE, validate(trule))
    /\ UNCHANGED <<trule, tnext, notTree>>

\* get_at_path called on the node of the tree that sits at from
TreeGet(from, path) ==
    /\ tlast = NoCall
    /\ LET self == get_at_path(trule.root, from).val
           r == get_at_path(self, path)
       IN tlast' = Call("get", path, self, r.some, r)
    /\ UNCHANGED <<trule, tnext, notTree>>

\* the handlers' render_tree_node(&rule.root, "0".to_string(), 0)
TreeRender ==
    /\ tlast = NoCall
    /\ tlast' = Call("render", <<>>, trule.root, TRUE,
                     render_tree_node(trule.root, <<"0">>, 0))
    /\ UNCHANGED <<trule, tnext, notTree>>

\* the caller is done with the call's outcome and makes the next call
TreeNextCall ==
    /\ tlast # NoCall
    /\ tlast' = NoCall
    /\ UNCHANGED <<trule, tnext, notTree>>

NextTree ==
    \/ \E path \in IndexPaths : \E child \in NewNodes(tnext) : TreeAdd(path, child)
    \/ \E path \in IndexPaths : TreeDelete(path)
    \/ TreeValidate
    \/ \E from \in NodePaths(trule.root) : \E path \in IndexPaths :
          (from = <<>> \/ path = <<>>) /\ TreeGet(from, path)
    \/ TreeRender
    \/ TreeNextCall

SpecTree == InitTree /\ [][NextTree]_vars

(***************************************************************************)
(* The rule store and the handlers.  get_rule and update_rule each take     *)
(* the mutex for the length of the call, so each is one step; what a        *)
(* handler does between them works on its own clone and is a step too.      *)
(***************************************************************************)
NoRule == [some |-> FALSE]

SomeRule(r) == [some |-> TRUE, val |-> r]

\* a default rule without a name
DefaultRule_unnamed == Rule_new(0, 1, "", "Main fraud detection rule for transactions")

DefaultRule ==
    Rule_new(0, 1, "Fraud Detection Rule", "Main fraud detection rule for transactions")

\* RuleStore::new: the cell holds Some(default rule)
RuleStore_new == SomeRule(DefaultRule)

\* self.rule.lock().unwrap().clone()
get_rule(cell) == cell

\* an update that never reaches the cell
update_rule_dropped(cell, rule) == cell

\* an update that appends the given rule's children to the stored ones instead
\* of replacing the stored rule
update_rule_merge(cell, rule) ==
    SomeRule([rule EXCEPT !.root.children =
                 (IF cell.some THEN cell.val.root.children ELSE <<>>) \o @])

\* an update that empties the cell
update_rule_clear(cell, rule) == NoRule

\* a write that stores the Rule without its name
update_rule_unnamed(cell, rule) == SomeRule([rule EXCEPT !.name = ""])

\* *r = Some(rule): the new content of the cell
update_rule(cell, rule) == SomeRule(rule)

\* AddConditionForm
Form(lt, lf, lv, op, rt, rf, rv) ==
    [left_type |-> lt, left_field |-> lf, left_value |-> lv, operator |-> op,
     right_type |-> rt, right_field |-> rf, right_value |-> rv]

\* what add_condition builds from the form before it touches the tree; a
\* failed unwrap() panics and ends the handler there
condition_from_form(form, id) ==
    LET operator == Operator_deserialize(form.operator)
        lfield == Field_deserialize(unwrap_or_default(form.left_field))
        rfield == Field_deserialize(unwrap_or_default(form.right_field))
    IN IF ~operator.ok THEN [panic |-> TRUE, node |-> <<>>]
       ELSE IF form.left_type = "field" /\ ~lfield.ok THEN [panic |-> TRUE, node |-> <<>>]
       ELSE IF form.right_type = "field" /\ ~rfield.ok THEN [panic |-> TRUE, node |-> <<>>]
       ELSE [panic |-> FALSE,
             node |-> Leaf(id,
                           IF form.left_type = "field" THEN OperandField(lfield.val)
                           ELSE OperandValue(unwrap_or_default(form.left_value)),
                           operator.val,
                           IF form.right_type = "field" THEN OperandField(rfield.val)
                           ELSE OperandValue(unwrap_or_default(form.right_value)))]

\* the LogicalOperator update_operator takes from its form; form is
\* form.get("operator")
operator_from_form(form) ==
    LET operator_str == IF form = NoneStr THEN "and" ELSE form[1]
    IN IF operator_str = "or" THEN "Or" ELSE "And"

\* an edit that sets the operator of whatever node the path resolves to
set_operator_any(root, path, operator) ==
    LET t == get_at_path_mut(root, path) IN
    IF t.some
    THEN StoreAt(root, path, [t.val EXCEPT !.operator = operator])
    ELSE root

\* update_operator's in-place edit through get_at_path_mut
set_operator_at_path(root, path, operator) ==
    LET t == get_at_path_mut(root, path) IN
    IF t.some /\ is_group(t.val)
    THEN StoreAt(root, path, [t.val EXCEPT !.operator = operator])
    ELSE root

Response(kind, errors) == [kind |-> kind, errors |-> errors]

\* a new group that takes OR for its operator
new_group_or(id) == Group(id, "Or", <<>>)

\* add_group's new node: ConditionNode::Group { id: Uuid::new_v4(),
\* operator: LogicalOperator::And, children: vec![] }
new_group(id) == Group(id, "And", <<>>)

\* The handler after get_rule returned Some(rule): the clone it hands to
\* update_rule (write = FALSE when it never gets there), its response, and
\* whether the tree call reported success.
HandlerBody(request, rule, id) ==
    LET indices == parse_path(request.path) IN
    CASE request.handler = "add_condition" ->
           LET c == condition_from_form(request.form, id) IN
           IF c.panic
           THEN [write |-> FALSE, rule |-> rule, changed |-> FALSE,
                 resp |-> Response("panic", <<>>)]
           ELSE LET r == add_child_at_path(rule.root, indices, c.node) IN
                [write |-> TRUE, rule |-> [rule EXCEPT !.root = r.node],
                 changed |-> r.ok, resp |-> Response("rule_view", <<>>)]
      [] request.handler = "add_group" ->
           LET r == add_child_at_path(rule.root, indices, new_group(id)) IN
           [write |-> TRUE, rule |-> [rule EXCEPT !.root = r.node],
            changed |-> r.ok, resp |-> Response("rule_view", <<>>)]
      [] request.handler = "delete_node" ->
           LET r == delete_at_path(rule.root, indices) IN
           [write |-> TRUE, rule |-> [rule EXCEPT !.root = r.node],
            changed |-> r.ok, resp |-> Response("rule_view", <<>>)]
      [] request.handler = "update_operator" ->
           LET root == set_operator_at_path(rule.root, indices,
                                            operator_from_form(request.opform)) IN
           [write |-> TRUE, rule |-> [rule EXCEPT !.root = root],
            changed |-> root # rule.root, resp |-> Response("rule_view", <<>>)]
      [] request.handler = "validate_rule" ->
           LET v == validate(rule) IN
           [write |-> FALSE, rule |-> rule, changed |-> FALSE,
            resp |-> Response(IF v.ok THEN "valid" ELSE "invalid", v.errors)]
      [] request.handler = "index" ->
           [write |-> FALSE, rule |-> rule, changed |-> FALSE,
            resp |-> Response("rule_view", <<>>)]

\* Mutex::new: no task holds the lock
Unlocked == 0

InitStore ==
    /\ store = RuleStore_new
    /\ nextId = 2
    /\ mutex = Unlocked
    /\ pc = [p \in Procs |-> "idle"]
    /\ req = [p \in Procs |-> <<>>]
    /\ snap = [p \in Procs |-> NoRule]
    /\ local = [p \in Procs |-> NoRule]
    /\ resp = [p \in Procs |-> Response("none", <<>>)]
    /\ nreq = 0
    /\ nwrites = 0
    /\ seenW = [p \in Procs |-> 0]
    /\ wroteAt = [p \in Procs |-> 0]
    /\ written = {}

\* A request arrives at task p and the handler runs up to and including
\* get_rule.
Begin(p, request, limit) ==
    /\ pc[p] = "idle"
    /\ nreq < limit
    /\ nreq' = nreq + 1
    /\ req' = [req EXCEPT ![p] = request]
    /\ snap' = [snap EXCEPT ![p] = get_rule(store)]
    /\ seenW' = [seenW EXCEPT ![p] = nwrites]
    /\ pc' = [pc EXCEPT ![p] = "read"]
    /\ UNCHANGED <<store, nextId, mutex, local, resp, nwrites, wroteAt, written, notStore>>

\* a clone that shares the stored Rule: the handler's change shows in the cell
cell_shared_with_clone(cell, mutated) == SomeRule(mutated)

\* get_rule's clone() gave the handler a Rule of its own: what the cell holds
\* after the handler changed its clone into mutated
cell_after_clone_mutated(cell, mutated) == cell

\* The handler works on its clone: it decodes the request and makes the tree
\* call on the Rule get_rule gave it.  A handler that has nothing to write,
\* or that panics, is through after this step.
Work(p) ==
    /\ pc[p] = "read"
    /\ UNCHANGED <<mutex, req, snap, nreq, seenW, nwrites, wroteAt, written, notStore>>
    /\ IF ~snap[p].some
       THEN /\ resp' = [resp EXCEPT ![p] = Response("not_found", <<>>)]
            /\ pc' = [pc EXCEPT ![p] = "done"]
            /\ UNCHANGED <<store, nextId, local>>
       ELSE \E b \in {HandlerBody(req[p], snap[p].val, nextId)} :
            /\ resp' = [resp EXCEPT ![p] = b.resp]
            /\ nextId' = IF b.write /\ b.changed
                            /\ req[p].handler \in {"add_condition", "add_group"}
                         THEN nextId + 1 ELSE nextId
            /\ IF b.write
               THEN /\ local' = [local EXCEPT ![p] = SomeRule(b.rule)]
                    /\ store' = cell_after_clone_mutated(store, b.rule)
                    /\ pc' = [pc EXCEPT ![p] = "worked"]
               ELSE /\ pc' = [pc EXCEPT ![p] = "done"]
                    /\ UNCHANGED <<store, local>>

\* The rest of the handler: update_rule with the clone, then the response.
Finish(p) ==
    /\ pc[p] = "worked"
    /\ pc' = [pc EXCEPT ![p] = "done"]
    /\ store' = update_rule(store, local[p].val)
    /\ nwrites' = nwrites + 1
    /\ wroteAt' = [wroteAt EXCEPT ![p] = nwrites + 1]
    /\ written' = written \cup {local[p].val}
    /\ UNCHANGED <<mutex, req, snap, local, resp, nextId, nreq, seenW, notStore>>

\* The response is sent and the task ends: its request, its clones and its
\* response are dropped.
Return(p) ==
    /\ pc[p] = "done"
    /\ pc' = [pc EXCEPT ![p] = "idle"]
    /\ req' = [req EXCEPT ![p] = <<>>]
    /\ snap' = [snap EXCEPT ![p] = NoRule]
    /\ local' = [local EXCEPT ![p] = NoRule]
    /\ resp' = [resp EXCEPT ![p] = Response("none", <<>>)]
    /\ seenW' = [seenW EXCEPT ![p] = 0]
    /\ wroteAt' = [wroteAt EXCEPT ![p] = 0]
    /\ UNCHANGED <<store, nextId, mutex, nreq, nwrites, written, notStore>>

(***************************************************************************)
(* The requests the handlers are given.                                    *)
(***************************************************************************)
MalformedTokens == {<<"0", "-", "x">>, <<"7", "-", "1">>}

PathTokens ==
    {path_to_string(xs) : xs \in SeqsUpTo(0..MaxChild, MaxDepth)} \cup MalformedTokens

EmptyForm == Form("", NoneStr, NoneStr, "", "", NoneStr, NoneStr)

\* transaction_amount greater_than "1000"
FormAmount ==
    Form("field", SomeStr("transaction_amount"), NoneStr, "greater_than",
         "value", NoneStr, SomeStr("1000"))

\* a left literal that was not sent, compared with a field
FormEmptyLeft ==
    Form("value", NoneStr, NoneStr, "equals", "field", SomeStr("user_country"), NoneStr)

\* an operator token that is no wire token
FormBadOperator ==
    Form("field", SomeStr("user_age"), NoneStr, "bogus", "value", NoneStr, SomeStr("1"))

\* a field token that is no wire token
FormBadField ==
    Form("field", SomeStr("transaction_count24h"), NoneStr, "equals",
         "value", NoneStr, SomeStr("1"))

\* a right side of type field with no field sent
FormMissingField ==
    Form("value", NoneStr, SomeStr("x"), "equals", "field", NoneStr, NoneStr)

GoodForms == {FormAmount, FormEmptyLeft}

BadForms == {FormBadOperator, FormBadField, FormMissingField}

OperatorForms == {SomeStr("or"), SomeStr("and"), NoneStr}

Request(handler, path, form, opform) ==
    [handler |-> handler, path |-> path, form |-> form, opform |-> opform]

RequestsOver(tokens, forms, opforms) ==
    {Request("add_condition", t, f, NoneStr) : t \in tokens, f \in forms}
    \cup {Request("add_group", t, EmptyForm, NoneStr) : t \in tokens}
    \cup {Request("delete_node", t, EmptyForm, NoneStr) : t \in tokens}
    \cup {Request("update_operator", t, EmptyForm, o) : t \in tokens, o \in opforms}
    \cup {Request("validate_rule", <<>>, EmptyForm, NoneStr),
          Request("index", <<>>, EmptyForm, NoneStr)}

Requests == RequestsOver(PathTokens, GoodForms \cup BadForms, OperatorForms)

ConcTokens == {<<"0">>, <<"0", "-", "0">>}

ConcRequests == RequestsOver(ConcTokens, {FormAmount, FormBadOperator}, {SomeStr("or")})

(***************************************************************************)
(* The store with one handler at a time, and with two handlers at once.    *)
(***************************************************************************)
Init == InitStore /\ CodecIdle /\ TreeIdle /\ SessIdle /\ ResIdle /\ VocabIdle

Next ==
    \/ \E request \in Requests : Begin(1, request, MaxReqs)
    \/ Work(1)
    \/ Finish(1)
    \/ Return(1)

Spec == Init /\ [][Next]_vars

NextConc ==
    \E p \in Procs :
        \/ \E request \in ConcRequests : Begin(p, request, MaxConcReqs)
        \/ Work(p)
        \/ Finish(p)
        \/ Return(p)

SpecConc == Init /\ [][NextConc]_vars

(***************************************************************************)
(* The handlers with the store's mutex followed step by step: get_rule and *)
(* update_rule each take the lock, act on the cell and drop the guard.     *)
(***************************************************************************)
LockProcs == {1, 2, 3}

LockRequests ==
    {Request("update_operator", <<"0">>, EmptyForm, SomeStr("or")),
     Request("update_operator", <<"0">>, EmptyForm, SomeStr("and")),
     Request("add_condition", <<"0">>, FormBadOperator, NoneStr),
     Request("index", <<>>, EmptyForm, NoneStr)}

\* self.rule.lock(): the mutex once the caller has it
lock(holder) == holder

\* a guard that outlives the call and is still held by the caller
guard_kept(holder) == holder

\* the MutexGuard goes out of scope at the end of get_rule / update_rule
guard_dropped(holder) == Unlocked

InitLock ==
    /\ store = RuleStore_new
    /\ nextId = 2
    /\ mutex = Unlocked
    /\ pc = [p \in LockProcs |-> "idle"]
    /\ req = [p \in LockProcs |-> <<>>]
    /\ snap = [p \in LockProcs |-> NoRule]
    /\ local = [p \in LockProcs |-> NoRule]
    /\ resp = [p \in LockProcs |-> Response("none", <<>>)]
    /\ nreq = 0
    /\ nwrites = 0
    /\ seenW = [p \in LockProcs |-> 0]
    /\ wroteAt = [p \in LockProcs |-> 0]
    /\ written = {}
    /\ CodecIdle
    /\ TreeIdle
    /\ SessIdle
    /\ ResIdle
    /\ VocabIdle

\* a request arrives at task p; the handler is about to call get_rule
Arrive(p, request) ==
    /\ pc[p] = "idle"
    /\ nreq < MaxLockReqs
    /\ nreq' = nreq + 1
    /\ req' = [req EXCEPT ![p] = request]
    /\ pc' = [pc EXCEPT ![p] = "arrived"]
    /\ UNCHANGED <<store, nextId, mutex, snap, local, resp,
                   nwrites, seenW, wroteAt, written, notStore>>

\* get_rule: self.rule.lock() returns once no other task holds the mutex
LockForRead(p) ==
    /\ pc[p] = "arrived"
    /\ mutex = Unlocked
    /\ mutex' = lock(p)
    /\ pc' = [pc EXCEPT ![p] = "get_rule"]
    /\ UNCHANGED <<store, nextId, req, snap, local, resp,
                   nreq, nwrites, seenW, wroteAt, written, notStore>>

\* get_rule: .clone() under the lock, then the guard is dropped
GetRule(p) ==
    /\ pc[p] = "get_rule"
    /\ mutex = p
    /\ snap' = [snap EXCEPT ![p] = get_rule(store)]
    /\ mutex' = guard_dropped(p)
    /\ pc' = [pc EXCEPT ![p] = "read"]
    /\ UNCHANGED <<store, nextId, req, local, resp,
                   nreq, nwrites, seenW, wroteAt, written, notStore>>

\* update_rule: self.rule.lock() returns once no other task holds the mutex
LockForWrite(p) ==
    /\ pc[p] = "worked"
    /\ mutex = Unlocked
    /\ mutex' = lock(p)
    /\ pc' = [pc EXCEPT ![p] = "update_rule"]
    /\ UNCHANGED <<store, nextId, req, snap, local, resp,
                   nreq, nwrites, seenW, wroteAt, written, notStore>>

\* update_rule: *r = Some(rule) under the lock, then the guard is dropped
UpdateRule(p) ==
    /\ pc[p] = "update_rule"
    /\ mutex = p
    /\ store' = update_rule(store, local[p].val)
    /\ mutex' = guard_dropped(p)
    /\ pc' = [pc EXCEPT ![p] = "done"]
    /\ UNCHANGED <<nextId, req, snap, local, resp,
                   nreq, nwrites, seenW, wroteAt, written, notStore>>

NextLock ==
    \E p \in LockProcs :
        \/ \E request \in LockRequests : Arrive(p, request)
        \/ LockForRead(p)
        \/ GetRule(p)
        \/ Work(p)
        \/ LockForWrite(p)
        \/ UpdateRule(p)
        \/ Return(p)

\* every task that can take a step of its handler takes one in the end
SpecLock ==
    /\ InitLock
    /\ [][NextLock]_vars
    /\ \A p \in LockProcs :
          /\ WF_vars(LockForRead(p))
          /\ WF_vars(GetRule(p))
          /\ WF_vars(Work(p))
          /\ WF_vars(LockForWrite(p))
          /\ WF_vars(UpdateRule(p))

(***************************************************************************)
(* The session store.  SystemTime::now() is the model's clock, which only  *)
(* moves forward; one call reads it once.  Session ids and user ids are    *)
(* naturals handed out in order.                                           *)
(***************************************************************************)
Session_new(user_id, username, t) ==
    [user_id |-> user_id, username |-> username,
     created_at |-> t, expires_at |-> t + SESSION_DURATION]

\* SystemTime::now() > self.expires_at, with t the clock's reading
is_expired(session, t) == t > session.expires_at

SessionStore_new == <<>>

\* HashMap::insert
create_session(map, session_id, session) ==
    [k \in (DOMAIN map) \cup {session_id} |->
        IF k = session_id THEN session ELSE map[k]]

MapRemove(map, key) == [k \in (DOMAIN map) \ {key} |-> map[k]]

NoSession == [some |-> FALSE]

\* the returned Option<Session> and the map after the call
get_session(map, session_id, t) ==
    IF session_id \in DOMAIN map
    THEN IF is_expired(map[session_id], t)
         THEN [found |-> NoSession, map |-> MapRemove(map, session_id)]
         ELSE [found |-> [some |-> TRUE, val |-> map[session_id]], map |-> map]
    ELSE [found |-> NoSession, map |-> map]

delete_session(map, session_id) == MapRemove(map, session_id)

\* a sweep that empties the map
cleanup_all(map, t) == <<>>

\* sessions.retain(|_, session| !session.is_expired())
cleanup_expired(map, t) ==
    [k \in {j \in DOMAIN map : ~is_expired(map[j], t)} |-> map[k]]

Usernames == {"alice"}

\* the ids a cookie may carry: every id handed out, as session id or user id
CookieIds == 0..(2 * MaxSessions - 1)

SCall(op, sid, found, at) == [op |-> op, sid |-> sid, found |-> found, at |-> at]

InitSession ==
    /\ sessions = SessionStore_new
    /\ now = 0
    /\ sessNext = 0
    /\ slast = SCall("none", 0, NoSession, 0)
    /\ screated = <<>>
    /\ sdeleted = {}
    /\ CodecIdle
    /\ StoreIdle
    /\ TreeIdle
    /\ ResIdle
    /\ VocabIdle

Tick ==
    /\ now < MaxTime
    /\ now' = now + 1
    /\ UNCHANGED <<sessions, sessNext, slast, screated, sdeleted, notSess>>

CreateSession(username) ==
    /\ sessNext < 2 * MaxSessions
    /\ sessions' = create_session(sessions, sessNext, Session_new(sessNext + 1, username, now))
    /\ screated' = create_session(screated, sessNext, now)
    /\ sessNext' = sessNext + 2
    /\ slast' = SCall("create", sessNext, NoSession, now)
    /\ UNCHANGED <<now, sdeleted, notSess>>

GetSession(session_id) ==
    /\ LET r == get_session(sessions, session_id, now) IN
       /\ sessions' = r.map
       /\ slast' = SCall("get", session_id, r.found, now)
    /\ UNCHANGED <<now, sessNext, screated, sdeleted, notSess>>

DeleteSession(session_id) ==
    /\ session_id \in DOMAIN sessions
    /\ sessions' = delete_session(sessions, session_id)
    /\ sdeleted' = sdeleted \cup {session_id}
    /\ slast' = SCall("delete", session_id, NoSession, now)
    /\ UNCHANGED <<now, sessNext, screated, notSess>>

CleanupExpired ==
    /\ sessions' = cleanup_expired(sessions, now)
    /\ slast' = SCall("cleanup", 0, NoSession, now)
    /\ UNCHANGED <<now, sessNext, screated, sdeleted, notSess>>

NextSession ==
    \/ Tick
    \/ \E username \in Usernames : CreateSession(username)
    \/ \E session_id \in CookieIds : GetSession(session_id)
    \/ \E session_id \in CookieIds : DeleteSession(session_id)
    \/ CleanupExpired

SpecSession == InitSession /\ [][NextSession]_vars

(***************************************************************************)
(* The protected routes: auth_middleware in front of the rule handlers.    *)
(* A cookie header is the list of its ';'-separated cookies, each the list *)
(* of the parts splitn(2, '=') gives: <<name, value>>, or <<text>> when    *)
(* the cookie has no '='.                                                  *)
(***************************************************************************)
NoHeader == [some |-> FALSE]

Header(cookies) == [some |-> TRUE, val |-> cookies]

NoSid == [some |-> FALSE]

RECURSIVE FindAnyCookie(_)
FindAnyCookie(cookies) ==
    IF cookies = <<>> THEN NoSid
    ELSE IF Len(Head(cookies)) = 2
         THEN [some |-> TRUE, val |-> Head(cookies)[2]]
         ELSE FindAnyCookie(Tail(cookies))

RECURSIVE FindSessionCookie(_)
\* cookies.split(';').find_map(...): the value of the first cookie that has
\* two parts and the name session_id
FindSessionCookie(cookies) ==
    IF cookies = <<>> THEN NoSid
    ELSE IF Len(Head(cookies)) = 2 /\ Head(cookies)[1] = "session_id"
         THEN [some |-> TRUE, val |-> Head(cookies)[2]]
         ELSE FindSessionCookie(Tail(cookies))

\* an extraction that takes the value of the first cookie, whatever its name
extract_any_cookie(cookie) ==
    IF cookie.some THEN FindAnyCookie(cookie.val) ELSE NoSid

extract_session_id(cookie) ==
    IF cookie.some THEN FindSessionCookie(cookie.val) ELSE NoSid

\* whether next.run(request) is reached, the session map after the lookup,
\* and the response given otherwise
auth_middleware(request, map, t) ==
    LET session_id == extract_session_id(request.cookie)
        r == IF session_id.some THEN get_session(map, session_id.val, t)
             ELSE [found |-> NoSession, map |-> map]
    IN [next |-> r.found.some,
        sid |-> session_id,
        found |-> r.found,
        map |-> r.map,
        resp |-> IF request.hx_request
                 THEN Response("hx_redirect_login", <<>>)
                 ELSE Response("redirect_login", <<>>)]

\* the cookie headers of the requests
CookieHeaders ==
    {NoHeader, Header(<<>>), Header(<<<<"garbage">>>>)}
    \cup {Header(<<<<"session_id", v>>>>) : v \in {0, 1}}
    \cup {Header(<<<<"theme", 0>>>>), Header(<<<<"theme", 0>>, <<"session_id", 0>>>>)}

AuthRequest(request, cookie, hx) ==
    [handler |-> request.handler, path |-> request.path, form |-> request.form,
     opform |-> request.opform, cookie |-> cookie, hx_request |-> hx]

ProtectedRequests ==
    {AuthRequest(r, c, hx) :
        r \in {Request("add_group", <<"0">>, EmptyForm, NoneStr),
               Request("validate_rule", <<>>, EmptyForm, NoneStr),
               Request("index", <<>>, EmptyForm, NoneStr)},
        c \in CookieHeaders, hx \in BOOLEAN}

InitAuth ==
    /\ InitStore
    /\ sessions = SessionStore_new
    /\ now = 0
    /\ sessNext = 0
    /\ slast = SCall("none", 0, NoSession, 0)
    /\ screated = <<>>
    /\ sdeleted = {}
    /\ CodecIdle
    /\ TreeIdle
    /\ ResIdle
    /\ VocabIdle

\* A request to a protected route goes through auth_middleware; when the
\* middleware lets it through, the handler runs up to and including get_rule.
Protected(p, request) ==
    /\ pc[p] = "idle"
    /\ nreq < MaxAuthReqs
    /\ nreq' = nreq + 1
    /\ req' = [req EXCEPT ![p] = request]
    /\ LET m == auth_middleware(request, sessions, now) IN
       /\ sessions' = m.map
       /\ slast' = IF m.sid.some THEN SCall("get", m.sid.val, m.found, now) ELSE slast
       /\ IF m.next
          THEN /\ snap' = [snap EXCEPT ![p] = get_rule(store)]
               /\ seenW' = [seenW EXCEPT ![p] = nwrites]
               /\ pc' = [pc EXCEPT ![p] = "read"]
               /\ UNCHANGED resp
          ELSE /\ resp' = [resp EXCEPT ![p] = m.resp]
               /\ pc' = [pc EXCEPT ![p] = "done"]
               /\ UNCHANGED <<snap, seenW>>
    /\ UNCHANGED <<store, nextId, mutex, local, nwrites, wroteAt, written,
                   now, sessNext, screated, sdeleted,
                   codecVars, treeVars, resVars, vocabVars>>

\* do_login with a username and a password: create_session
Login(username) ==
    /\ sessNext < 2 * MaxLogins
    /\ CreateSession(username)

NextAuth ==
    \/ Tick
    \/ \E username \in Usernames : Login(username)
    \/ \E request \in ProtectedRequests : Protected(1, request)
    \/ Work(1)
    \/ Finish(1)
    \/ Return(1)

SpecAuth == InitAuth /\ [][NextAuth]_vars

(***************************************************************************)
(* The operator resolvers.  A response is the list of operators offered.   *)
(***************************************************************************)
NumericOperators ==
    <<"Equals", "NotEquals", "GreaterThan", "LessThan",
      "GreaterThanOrEqual", "LessThanOrEqual">>

StringOperators == <<"Equals", "NotEquals", "Contains", "In">>

Options(operators) == [kind |-> "options", operators |-> operators]

get_operators_for_field(query) ==
    LET d == Field_deserialize(query.field) IN
    Options(IF d.ok
            THEN IF d.val \in {"TransactionAmount", "UserAge",
                               "TransactionCount24h", "AccountAge"}
                 THEN NumericOperators
                 ELSE StringOperators
            ELSE Operator_all)

get_operators_and_right_hint(params) ==
    LET left_type == IF params.left_type = NoneStr THEN "field" ELSE params.left_type[1]
        left_field_str == IF params.left_field = NoneStr THEN "" ELSE params.left_field[1]
        d == Field_deserialize(left_field_str)
    IN Options(IF left_type = "field" /\ left_field_str # ""
               THEN IF d.ok
                    THEN IF d.val \in {"TransactionAmount", "UserAge",
                                       "TransactionCount24h", "AccountAge"}
                         THEN NumericOperators
                         ELSE StringOperators
                    ELSE Operator_all
               ELSE Operator_all)

\* <f64 as FromStr>::from_str, as far as Ok / Err goes: an optional sign, then
\* either digits with an optional '.' (one digit at least, before or after
\* it) and an optional exponent of at least one digit, or one of inf,
\* infinity, nan in any letter case.  The whole string must be consumed.
LeadingDigits(s) ==
    LET RECURSIVE cnt(_)
        cnt(i) == IF i <= Len(s) /\ IsDigit(s[i]) THEN cnt(i + 1) ELSE i - 1
    IN cnt(1)

DropFirst(s, n) == SubSeq(s, n + 1, Len(s))

to_ascii_lowercase(c) ==
    CASE c = "I" -> "i" [] c = "N" -> "n" [] c = "F" -> "f" [] c = "T" -> "t"
      [] c = "Y" -> "y" [] c = "A" -> "a" [] c = "E" -> "e" [] OTHER -> c

is_scientific(e) ==
    LET d == IF e # <<>> /\ e[1] \in {"+", "-"} THEN Tail(e) ELSE e
    IN d # <<>> /\ LeadingDigits(d) = Len(d)

is_decimal(b) ==
    LET ni == LeadingDigits(b)
        r1 == DropFirst(b, ni)
        hasDot == r1 # <<>> /\ r1[1] = "."
        r2 == IF hasDot THEN Tail(r1) ELSE r1
        nf == IF hasDot THEN LeadingDigits(r2) ELSE 0
        r3 == DropFirst(r2, nf)
    IN /\ ni + nf > 0
       /\ \/ r3 = <<>>
          \/ r3[1] \in {"e", "E"} /\ is_scientific(Tail(r3))

is_inf_nan(b) ==
    [i \in 1..Len(b) |-> to_ascii_lowercase(b[i])] \in
        {<<"n", "a", "n">>, <<"i", "n", "f">>,
         <<"i", "n", "f", "i", "n", "i", "t", "y">>}

f64_from_str_is_ok(s) ==
    LET b == IF s # <<>> /\ s[1] \in {"+", "-"} THEN Tail(s) ELSE s
    IN b # <<>> /\ (is_decimal(b) \/ is_inf_nan(b))

\* the <input> a response carries
ValueInput(type, list, disabled) ==
    [kind |-> "input", type |-> type, list |-> list, disabled |-> disabled]

\* a value input that takes the 24h count for text
get_value_input_count_as_text(query) ==
    LET d == Field_deserialize(query.field) IN
    IF d.ok
    THEN IF d.val \in {"TransactionAmount", "UserAge", "AccountAge"}
         THEN ValueInput("number", "", FALSE)
         ELSE IF d.val = "TransactionCurrency"
              THEN ValueInput("text", "currency-suggestions", FALSE)
         ELSE IF d.val = "UserCountry"
              THEN ValueInput("text", "country-suggestions", FALSE)
         ELSE ValueInput("text", "", FALSE)
    ELSE ValueInput("text", "", TRUE)

get_value_input_for_field(query) ==
    LET d == Field_deserialize(query.field) IN
    IF d.ok
    THEN IF d.val \in {"TransactionAmount", "UserAge",
                       "TransactionCount24h", "AccountAge"}
         THEN ValueInput("number", "", FALSE)
         ELSE IF d.val = "TransactionCurrency"
              THEN ValueInput("text", "currency-suggestions", FALSE)
         ELSE IF d.val = "UserCountry"
              THEN ValueInput("text", "country-suggestions", FALSE)
         ELSE ValueInput("text", "", FALSE)
    ELSE ValueInput("text", "", TRUE)

get_operators_for_value_nonempty(params) ==
    LET left_value == IF params.left_value = NoneStr THEN <<>> ELSE params.left_value[1]
    IN Options(IF left_value # <<>> THEN NumericOperators ELSE StringOperators)

get_operators_for_value(params) ==
    LET left_value == IF params.left_value = NoneStr THEN <<>> ELSE params.left_value[1]
        is_numeric == left_value # <<>> /\ f64_from_str_is_ok(left_value)
    IN Options(IF is_numeric THEN NumericOperators ELSE StringOperators)

FieldTokens == {Field_as_str(Field_all[i]) : i \in DOMAIN Field_all}

\* tokens that are no Field wire token; the second is what snake_case alone
\* would have made of TransactionCount24h
UnknownTokens == {"bogus", "transaction_count24h", "Transaction_Amount"}

QueryTokens == FieldTokens \cup UnknownTokens \cup {""}

\* the literals of a left_value parameter, as character sequences
ValueChars == {"4", "2", ".", "e", "-", "a", "n"}

ValueLiterals ==
    SeqsUpTo(ValueChars, MaxValueLen)
        \cup {<<"a", "b", "c">>, <<"+", "4", "2">>, <<"I", "n", "f">>,
              <<" ", "4", "2">>, <<"4", "E", "+", "2">>}

\* the query strings: those of the field forms, and those of a literal
FieldQueries ==
    [field : QueryTokens,
     left_type : {NoneStr, SomeStr("field"), SomeStr("value")},
     left_field : {NoneStr} \cup {SomeStr(t) : t \in QueryTokens},
     left_value : {NoneStr}]

ValueQueries ==
    [field : {""},
     left_type : {SomeStr("value")},
     left_field : {NoneStr},
     left_value : {SomeStr(v) : v \in ValueLiterals}]

\* a field form and a literal in the same query string
MixedQueries ==
    [field : FieldTokens,
     left_type : {NoneStr, SomeStr("field")},
     left_field : {SomeStr(t) : t \in FieldTokens},
     left_value : {SomeStr(v) : v \in {<<"4", "2">>, <<"a", "b", "c">>, <<>>,
                                       <<"4", ".", "2">>, <<"n", "a", "n">>}}]

Queries == FieldQueries \cup ValueQueries \cup MixedQueries

NoAnswer == [op |-> "none", resp |-> Options(<<>>)]

ResolverOps ==
    {"get_operators_for_field", "get_operators_and_right_hint",
     "get_operators_for_value", "get_value_input_for_field"}

NotAsked == [some |-> FALSE]

Answered(response) == [some |-> TRUE, val |-> response]

InitResolver ==
    /\ rquery \in Queries
    /\ rlast = NoAnswer
    /\ ranswers = [op \in ResolverOps |-> NotAsked]
    /\ CodecIdle
    /\ StoreIdle
    /\ TreeIdle
    /\ SessIdle
    /\ VocabIdle

\* the resolver op is called on the query, once, and answers response
Resolve(op, response) ==
    /\ ~ranswers[op].some
    /\ rlast' = [op |-> op, resp |-> response]
    /\ ranswers' = [ranswers EXCEPT ![op] = Answered(response)]
    /\ UNCHANGED <<rquery, notRes>>

GetOperatorsForField ==
    Resolve("get_operators_for_field", get_operators_for_field(rquery))

GetOperatorsAndRightHint ==
    Resolve("get_operators_and_right_hint", get_operators_and_right_hint(rquery))

GetOperatorsForValue ==
    Resolve("get_operators_for_value", get_operators_for_value(rquery))

GetValueInputForField ==
    Resolve("get_value_input_for_field", get_value_input_for_field(rquery))

NextResolver ==
    \/ GetOperatorsForField
    \/ GetOperatorsAndRightHint
    \/ GetOperatorsForValue
    \/ GetValueInputForField

SpecResolver == InitResolver /\ [][NextResolver]_vars

(***************************************************************************)
(* The wire tokens as a state machine: a Field and an Operator are drawn,  *)
(* as_str gives their tokens (the option values of the forms), and the     *)
(* handlers' decoder, serde_json::from_str on the quoted token, reads them *)
(* back.                                                                   *)
(***************************************************************************)
\* the list in the add-condition form's script
numericFields == {"transaction_amount", "user_age", "transaction_count24h", "account_age"}

\* leftFieldType = numericFields.includes($event.target.value) ? 'number' : 'string'
left_field_type(value) == IF value \in numericFields THEN "number" ELSE "string"

NoToken == [some |-> FALSE]

Token(t) == [some |-> TRUE, val |-> t]

NotDecoded == [some |-> FALSE]

DecodedAs(d) == [some |-> TRUE, val |-> d]

InitVocab ==
    /\ vin \in [field : {Field_all[i] : i \in DOMAIN Field_all},
                 operator : {Operator_all[i] : i \in DOMAIN Operator_all}]
    /\ vtok = [field |-> NoToken, operator |-> NoToken]
    /\ vout = [field |-> NotDecoded, operator |-> NotDecoded, leftFieldType |-> NotDecoded]
    /\ CodecIdle
    /\ StoreIdle
    /\ TreeIdle
    /\ SessIdle
    /\ ResIdle

FieldAsStr ==
    /\ ~vtok.field.some
    /\ vtok' = [vtok EXCEPT !.field = Token(Field_as_str(vin.field))]
    /\ UNCHANGED <<vin, vout, notVocab>>

OperatorAsStr ==
    /\ ~vtok.operator.some
    /\ vtok' = [vtok EXCEPT !.operator = Token(Operator_as_str(vin.operator))]
    /\ UNCHANGED <<vin, vout, notVocab>>

DecodeField ==
    /\ vtok.field.some
    /\ ~vout.field.some
    /\ vout' = [vout EXCEPT !.field = DecodedAs(Field_deserialize(vtok.field.val))]
    /\ UNCHANGED <<vin, vtok, notVocab>>

DecodeOperator ==
    /\ vtok.operator.some
    /\ ~vout.operator.some
    /\ vout' = [vout EXCEPT !.operator = DecodedAs(Operator_deserialize(vtok.operator.val))]
    /\ UNCHANGED <<vin, vtok, notVocab>>

\* the token is the value of the option picked in the form's left_field
\* select, and the select's @change handler sets leftFieldType
ChangeLeftField ==
    /\ vtok.field.some
    /\ ~vout.leftFieldType.some
    /\ vout' = [vout EXCEPT !.leftFieldType = DecodedAs(left_field_type(vtok.field.val))]
    /\ UNCHANGED <<vin, vtok, notVocab>>

NextVocab ==
    FieldAsStr \/ OperatorAsStr \/ DecodeField \/ DecodeOperator \/ ChangeLeftField

SpecVocab == InitVocab /\ [][NextVocab]_vars

(***************************************************************************)
(* The path codec as a state machine: an index sequence is drawn, encoded  *)
(* and decoded again.                                                      *)
(***************************************************************************)
CodecInputs == SeqsUpTo(0..MaxIndex, MaxPathLen)

\* the characters of the tokens handed to parse_path as they come
TokenChars == {"0", "1", "x", "-", "+"}

\* 2^64, one above usize::MAX, after the root marker
TokenTooLarge ==
    <<"0", "-">> \o
    <<"1","8","4","4","6","7","4","4","0","7","3","7","0","9","5","5","1","6","1","6">>

RawTokens ==
    SeqsUpTo(TokenChars, MaxTokenLen)
        \cup {<<"0", "-", "x", "-", "2">>, <<"7", "-", "1">>, <<"0", "-", "1", "2">>,
              <<"0", "-", "1", "0", "-", "1">>,
              <<"0", "-", " ", "1">>, TokenTooLarge, TokenTooLarge \o <<"-", "3">>}

\* either an index sequence to encode and decode, or a token to decode
InitCodec ==
    /\ \/ /\ cxs \in CodecInputs
          /\ ctoken = <<>>
          /\ cpc = "input"
       \/ /\ cxs = <<>>
          /\ ctoken \in RawTokens
          /\ cpc = "token"
    /\ cdecoded = <<>>
    /\ cencoded = <<>>
    /\ StoreIdle
    /\ TreeIdle
    /\ SessIdle
    /\ ResIdle
    /\ VocabIdle

Encode ==
    /\ cpc = "input"
    /\ ctoken' = path_to_string(cxs)
    /\ cpc' = "encoded"
    /\ UNCHANGED <<cxs, cdecoded, cencoded, notCodec>>

Decode ==
    /\ cpc = "encoded"
    /\ cdecoded' = parse_path(ctoken)
    /\ cpc' = "decoded"
    /\ UNCHANGED <<cxs, ctoken, cencoded, notCodec>>

\* parse_path on a token that did not come from path_to_string
DecodeToken ==
    /\ cpc = "token"
    /\ cdecoded' = parse_path(ctoken)
    /\ cpc' = "parsed"
    /\ UNCHANGED <<cxs, ctoken, cencoded, notCodec>>

\* path_to_string on what parse_path made of the token
EncodeParsed ==
    /\ cpc = "parsed"
    /\ cencoded' = path_to_string(cdecoded)
    /\ cpc' = "reencoded"
    /\ UNCHANGED <<cxs, ctoken, cdecoded, notCodec>>

NextCodec == Encode \/ Decode \/ DecodeToken \/ EncodeParsed

SpecCodec == InitCodec /\ [][NextCodec]_vars

(***************************************************************************)
(* Helpers of the properties.                                              *)
(***************************************************************************)
\* the index sequences that lead from node to a node of its subtree
ValidPaths(node) == NodePaths(node)

NodeAt(root, path) == get_at_path(root, path).val

ChildrenAt(root, path) == NodeAt(root, path).children

Occurrences(seq, x) == Cardinality({i \in DOMAIN seq : seq[i] = x})

EmptyGroupPaths(root) ==
    {q \in ValidPaths(root) : is_group(NodeAt(root, q)) /\ NodeAt(root, q).children = <<>>}

LeafPaths(root) == {q \in ValidPaths(root) : is_leaf(NodeAt(root, q))}

EmptySides(leaf) ==
    {side \in {"left", "right"} :
        LET o == IF side = "left" THEN leaf.left ELSE leaf.right
        IN o.type = "value" /\ o.value = ""}

EmptyLiterals(root) ==
    {<<q, side>> \in LeafPaths(root) \X {"left", "right"} :
        side \in EmptySides(NodeAt(root, q))}

NodeIds(root) == {NodeAt(root, q).id : q \in ValidPaths(root)}

RECURSIVE OneEdit(_, _)
\* b is a with one Group of it changed once: one child more at the end, one
\* child less, or another operator
OneEdit(a, b) ==
    /\ is_group(a)
    /\ is_group(b)
    /\ a.id = b.id
    /\ \/ /\ a.operator # b.operator
          /\ a.children = b.children
       \/ /\ a.operator = b.operator
          /\ Len(b.children) = Len(a.children) + 1
          /\ SubSeq(b.children, 1, Len(a.children)) = a.children
       \/ /\ a.operator = b.operator
          /\ Len(b.children) + 1 = Len(a.children)
          /\ \E i \in DOMAIN a.children :
                b.children = SubSeq(a.children, 1, i - 1)
                                \o SubSeq(a.children, i + 1, Len(a.children))
       \/ /\ a.operator = b.operator
          /\ Len(b.children) = Len(a.children)
          /\ \E i \in DOMAIN a.children :
                /\ OneEdit(a.children[i], b.children[i])
                /\ \A j \in DOMAIN a.children : j # i => a.children[j] = b.children[j]

\* rule b is rule a after at most one mutation of its tree
AtMostOneMutation(a, b) ==
    /\ [a EXCEPT !.root = b.root] = b
    /\ a.root = b.root \/ OneEdit(a.root, b.root)

\* both tasks are through, both wrote, both read before either wrote, and q
\* wrote after p and last of all
RacedThenWrote(p, q) ==
    /\ p # q
    /\ pc[p] = "done"
    /\ pc[q] = "done"
    /\ wroteAt[p] > 0
    /\ wroteAt[q] > 0
    /\ snap[p] = snap[q]
    /\ seenW[p] < wroteAt[q]
    /\ seenW[q] < wroteAt[p]
    /\ wroteAt[p] < wroteAt[q]
    /\ wroteAt[q] = nwrites

AddedIds(p) == NodeIds(local[p].val.root) \ NodeIds(snap[p].val.root)

(***************************************************************************)
(* Properties.                                                             *)
(***************************************************************************)
\* C1: for every finite sequence xs of non-negative integers (the empty one
\* included), decoding the encoding of xs gives xs back.
C1_RoundTrip == cpc = "decoded" => cdecoded = cxs

C1_Witness ==
    /\ cpc = "decoded"
    /\ Len(cxs) = MaxPathLen
    /\ cxs[1] >= 10
    /\ cdecoded = cxs

\* C2: after add_child_at_path(p, n) returns true, the Group at p has the
\* children it had before, in the same order, followed by n as the last one:
\* the length grows by exactly one.
C2_AppendLast ==
    (tlast.op = "add" /\ tlast.ok) =>
        /\ get_at_path(tlast.pre, tlast.path).some
        /\ is_group(NodeAt(tlast.pre, tlast.path))
        /\ get_at_path(trule.root, tlast.path).some
        /\ is_group(NodeAt(trule.root, tlast.path))
        /\ LET before == ChildrenAt(tlast.pre, tlast.path)
               after == ChildrenAt(trule.root, tlast.path)
           IN /\ Len(after) = Len(before) + 1
              /\ \A i \in 1..Len(before) : after[i] = before[i]
              /\ after[Len(after)] = tlast.result

C2_Witness ==
    /\ tlast.op = "add"
    /\ tlast.ok
    /\ tlast.path # <<>>
    /\ Len(ChildrenAt(tlast.pre, tlast.path)) >= 1
    /\ Len(ChildrenAt(trule.root, tlast.path)) = Len(ChildrenAt(tlast.pre, tlast.path)) + 1

\* C3: when delete_at_path(parent + [i]) succeeds on a parent Group with n
\* children, the Group has n - 1 children afterwards: those formerly at
\* 0..i-1 stay where they were, those formerly at i+1..n-1 are at i..n-2, in
\* the same order.
C3_DeleteShifts ==
    (tlast.op = "delete" /\ tlast.ok) =>
        LET parent == SubSeq(tlast.path, 1, Len(tlast.path) - 1)
            i == tlast.path[Len(tlast.path)]
            before == ChildrenAt(tlast.pre, parent)
            after == ChildrenAt(trule.root, parent)
            n == Len(before)
        IN /\ tlast.path # <<>>
           /\ i < n
           /\ Len(after) = n - 1
           /\ \A k \in 0..(i - 1) : after[k + 1] = before[k + 1]
           /\ \A k \in (i + 1)..(n - 1) : after[k] = before[k + 1]

C3_Witness ==
    /\ tlast.op = "delete"
    /\ tlast.ok
    /\ tlast.path = <<1>>
    /\ Len(tlast.pre.children) = 3
    /\ Len(trule.root.children) = 2
    /\ trule.root.children[2] = tlast.pre.children[3]

\* C4: delete_at_path with the empty path returns false and leaves the tree as
\* it is, whatever the tree; so the delete-node handler given the token "0"
\* leaves the stored Rule equal to what it was, after any requests before it.
C4_RootNotDeletable ==
    /\ store.some =>
          delete_at_path(store.val.root, <<>>) = [ok |-> FALSE, node |-> store.val.root]
    /\ (pc[1] = "done" /\ req[1].handler = "delete_node" /\ req[1].path = <<"0">>) =>
          /\ store = snap[1]
          /\ local[1] = snap[1]

C4_Witness ==
    /\ pc[1] = "done"
    /\ req[1].handler = "delete_node"
    /\ req[1].path = <<"0">>
    /\ store = snap[1]
    /\ Len(store.val.root.children) = 2

\* C5: validate returns Ok exactly when the error list is empty; otherwise the
\* list holds one "Rule name cannot be empty" iff the name is empty, one "Group
\* must have at least one condition" for every Group without children at any
\* depth, one "Condition value cannot be empty" for every Leaf side that is an
\* empty literal, and nothing else; an empty name with exactly one empty Group
\* and one Leaf with exactly one empty literal gives exactly 3 errors.
C5_ValidateComplete ==
    tlast.op = "validate" =>
        LET v == tlast.result
            nName == IF trule.name = "" THEN 1 ELSE 0
            nGroup == Cardinality(EmptyGroupPaths(trule.root))
            nValue == Cardinality(EmptyLiterals(trule.root))
        IN /\ v.ok <=> (nName + nGroup + nValue = 0)
           /\ v.ok => v.errors = <<>>
           /\ ~v.ok => v.errors # <<>>
           /\ Occurrences(v.errors, ErrName) = nName
           /\ Occurrences(v.errors, ErrGroup) = nGroup
           /\ Occurrences(v.errors, ErrValue) = nValue
           /\ Len(v.errors) = nName + nGroup + nValue
           /\ (nName = 1 /\ nGroup = 1 /\ Cardinality(LeafPaths(trule.root)) = 1 /\ nValue = 1)
                 => Len(v.errors) = 3

C5_Witness ==
    /\ tlast.op = "validate"
    /\ trule.name = ""
    /\ Cardinality(EmptyGroupPaths(trule.root)) = 1
    /\ Cardinality(LeafPaths(trule.root)) = 1
    /\ Cardinality(EmptyLiterals(trule.root)) = 1
    /\ ~tlast.result.ok
    /\ Len(tlast.result.errors) = 3

\* C6: a session created at time T is returned by get_session for every
\* lookup strictly before T + SESSION_DURATION and is absent for every lookup
\* at or after T + SESSION_DURATION.
C6_ExpiryAtDuration ==
    (slast.op = "get" /\ slast.sid \in DOMAIN screated /\ slast.sid \notin sdeleted) =>
        LET T == screated[slast.sid] IN
        /\ slast.at < T + SESSION_DURATION => slast.found.some
        /\ slast.at >= T + SESSION_DURATION => ~slast.found.some

\* C7: two mutation handlers can both read the same stored Rule before either
\* writes back; the store then holds only the second writer's result, and what
\* the first writer added is not in it.
C7_LastWriteWins ==
    \A p, q \in Procs :
        RacedThenWrote(p, q) =>
            /\ store = local[q]
            /\ AtMostOneMutation(snap[p].val, store.val)
            /\ AddedIds(p) \cap NodeIds(store.val.root) = {}

C7_Witness ==
    \E p, q \in Procs :
        /\ RacedThenWrote(p, q)
        /\ req[p].handler = "add_group"
        /\ req[q].handler = "add_condition"
        /\ AddedIds(p) # {}
        /\ AddedIds(q) # {}
        /\ store = local[q]
        /\ Len(store.val.root.children) = 1

\* C8: every Rule a handler gets from get_rule is the default Rule or a whole
\* Rule that some handler gave to update_rule, and so is the stored Rule; each
\* Rule given to update_rule differs from the snapshot its writer read by at
\* most one mutation.
C8_WholeValues ==
    /\ store.some
    /\ store = RuleStore_new \/ store.val \in written
    /\ \A p \in Procs :
          pc[p] \in {"read", "worked", "done"} =>
              /\ snap[p].some
              /\ snap[p] = RuleStore_new \/ snap[p].val \in written
    /\ \A p \in Procs :
          (pc[p] = "done" /\ wroteAt[p] > 0) =>
              /\ local[p].val \in written
              /\ AtMostOneMutation(snap[p].val, local[p].val)

C8_Witness ==
    \E p, q \in Procs :
        /\ p # q
        /\ pc[p] = "read"
        /\ snap[p] # RuleStore_new
        /\ snap[p].val \in written
        /\ pc[q] = "done"
        /\ wroteAt[q] > 0
        /\ local[q] # snap[q]
        /\ store = local[q]
        /\ store # snap[p]

\* C9: no input aborts the add-condition handler: for every form, an operator
\* token outside the eight wire tokens and a side of type "field" with an
\* unknown or missing field token included, it completes and returns a
\* response.
C9_NoPanic ==
    \A p \in Procs :
        (pc[p] = "done" /\ req[p].handler = "add_condition") =>
            /\ resp[p].kind = "rule_view"
            /\ wroteAt[p] > 0

\* C10: given a field token that is not one of the eight Field wire tokens,
\* get_operators_for_field and get_operators_and_right_hint answer with an
\* error and not with the list of all eight operators.
C10_RejectUnknown ==
    /\ (rlast.op = "get_operators_for_field" /\ rquery.field \notin FieldTokens) =>
          /\ rlast.resp.kind = "error"
          /\ rlast.resp.operators # Operator_all
    /\ (rlast.op = "get_operators_and_right_hint"
          /\ rquery.left_type \in {NoneStr, SomeStr("field")}
          /\ rquery.left_field # NoneStr
          /\ rquery.left_field[1] \notin FieldTokens) =>
          /\ rlast.resp.kind = "error"
          /\ rlast.resp.operators # Operator_all

\* C11: for each of the four numeric Field tokens the operator resolver
\* offers exactly equals, not_equals, greater_than, less_than,
\* greater_than_or_equal, less_than_or_equal; for each of the four string
\* Field tokens exactly equals, not_equals, contains, in; and
\* get_operators_for_value offers the numeric set for a literal that parses
\* as a number ("42") and the string set for one that does not ("abc").
NumericFieldTokens ==
    {"transaction_amount", "user_age", "transaction_count_24h", "account_age"}

StringFieldTokens ==
    {"transaction_currency", "user_country", "ip_address", "device_fingerprint"}

NumericSet ==
    {"equals", "not_equals", "greater_than", "less_than",
     "greater_than_or_equal", "less_than_or_equal"}

StringSet == {"equals", "not_equals", "contains", "in"}

\* the option values of a response are exactly the set S, each once
Offers(response, S) ==
    /\ response.kind = "options"
    /\ {Operator_as_str(response.operators[i]) : i \in DOMAIN response.operators} = S
    /\ Len(response.operators) = Cardinality(S)

C11_OperatorSets ==
    /\ rlast.op = "get_operators_for_field" =>
          /\ rquery.field \in NumericFieldTokens => Offers(rlast.resp, NumericSet)
          /\ rquery.field \in StringFieldTokens => Offers(rlast.resp, StringSet)
    /\ (rlast.op = "get_operators_and_right_hint"
          /\ rquery.left_type \in {NoneStr, SomeStr("field")}
          /\ rquery.left_field # NoneStr) =>
          /\ rquery.left_field[1] \in NumericFieldTokens => Offers(rlast.resp, NumericSet)
          /\ rquery.left_field[1] \in StringFieldTokens => Offers(rlast.resp, StringSet)
    /\ (rlast.op = "get_operators_for_value" /\ rquery.left_value # NoneStr) =>
          LET v == rquery.left_value[1] IN
          /\ Offers(rlast.resp, NumericSet) \/ Offers(rlast.resp, StringSet)
          /\ Offers(rlast.resp, NumericSet) <=> f64_from_str_is_ok(v)
          /\ v \in {<<"4", "2">>, <<"4", ".", "2">>, <<"-", "4">>, <<"4", "e", "2">>}
                => Offers(rlast.resp, NumericSet)
          /\ v \in {<<"a", "b", "c">>, <<>>, <<"4", "a">>, <<"4", "e">>, <<".">>, <<"-">>}
                => Offers(rlast.resp, StringSet)

C11_Witness ==
    /\ rlast.op = "get_operators_for_value"
    /\ rquery.left_value = SomeStr(<<"4", "2">>)
    /\ Offers(rlast.resp, NumericSet)

\* C12: starting from the default Rule (root an empty AND Group, name not
\* empty), add-group at "0" gives the root exactly one child, an AND Group;
\* adding the Leaf transaction_amount greater_than "1000" at "0-0" then makes
\* validate() succeed; delete at "0-0" then removes the whole subgroup, so
\* the root has no children again and validate() reports "Group must have at
\* least one condition".
AmountLeaf(node) ==
    /\ is_leaf(node)
    /\ node.left = OperandField("TransactionAmount")
    /\ node.operator = "GreaterThan"
    /\ node.right = OperandValue("1000")

\* the default Rule but for the children of its root
DefaultWith(rule) == rule = [DefaultRule EXCEPT !.root.children = rule.root.children]

OneEmptyAndGroup(children) ==
    /\ Len(children) = 1
    /\ is_group(children[1])
    /\ children[1].operator = "And"
    /\ children[1].children = <<>>

OneGroupOfAmountLeaf(children) ==
    /\ Len(children) = 1
    /\ is_group(children[1])
    /\ children[1].operator = "And"
    /\ Len(children[1].children) = 1
    /\ AmountLeaf(children[1].children[1])

C12_Scenario ==
    [][(pc[1] = "worked" /\ pc'[1] = "done" /\ store.some /\ DefaultWith(store.val)) =>
         /\ (req[1] = Request("add_group", <<"0">>, EmptyForm, NoneStr)
                /\ store.val.root.children = <<>>) =>
               /\ DefaultWith(store'.val)
               /\ OneEmptyAndGroup(store'.val.root.children)
         /\ (req[1] = Request("add_condition", <<"0", "-", "0">>, FormAmount, NoneStr)
                /\ OneEmptyAndGroup(store.val.root.children)) =>
               /\ DefaultWith(store'.val)
               /\ OneGroupOfAmountLeaf(store'.val.root.children)
               /\ validate(store'.val) = [ok |-> TRUE, errors |-> <<>>]
         /\ (req[1] = Request("delete_node", <<"0", "-", "0">>, EmptyForm, NoneStr)
                /\ OneGroupOfAmountLeaf(store.val.root.children)) =>
               /\ DefaultWith(store'.val)
               /\ store'.val.root.children = <<>>
               /\ validate(store'.val) =
                     [ok |-> FALSE, errors |-> <<"Group must have at least one condition">>]
      ]_vars

\* the three requests were served in this order: the rules written are the
\* three of the scenario, and the last handler, the delete at "0-0", read the
\* second and wrote the third
C12_Witness ==
    /\ nreq = 3
    /\ nwrites = 3
    /\ pc[1] = "done"
    /\ req[1] = Request("delete_node", <<"0", "-", "0">>, EmptyForm, NoneStr)
    /\ snap[1].some
    /\ OneGroupOfAmountLeaf(snap[1].val.root.children)
    /\ store.val.root.children = <<>>
    /\ \E r \in written : OneEmptyAndGroup(r.root.children)
    /\ Cardinality(written) = 3
    /\ ~validate(store.val).ok

\* C13: get_at_path(root, path) returns a node exactly when every index of
\* the path is within the children of the Group reached by the indices before
\* it and no index is applied at a Leaf, and None otherwise; the node is the
\* one reached; the empty path returns the node the call is made on, at any
\* depth; and parse_path("0") is the empty sequence, so the token "0"
\* addresses the root.
RECURSIVE Reached(_, _)
\* the node reached from node by the indices of path, last index last
Reached(node, path) ==
    IF path = <<>> THEN node
    ELSE Reached(node, SubSeq(path, 1, Len(path) - 1)).children[path[Len(path)] + 1]

RECURSIVE Resolvable(_, _)
Resolvable(node, path) ==
    \/ path = <<>>
    \/ /\ Resolvable(node, SubSeq(path, 1, Len(path) - 1))
       /\ LET at == Reached(node, SubSeq(path, 1, Len(path) - 1)) IN
          /\ is_group(at)
          /\ path[Len(path)] < Len(at.children)

C13_GetAtPath ==
    /\ parse_path(<<"0">>) = <<>>
    /\ tlast.op = "get" =>
          /\ tlast.ok <=> Resolvable(tlast.pre, tlast.path)
          /\ tlast.ok => tlast.result = SomeNode(Reached(tlast.pre, tlast.path))
          /\ ~tlast.ok => tlast.result = NoNode
          /\ tlast.path = <<>> => tlast.result = SomeNode(tlast.pre)

\* a lookup made on a Leaf below the root, with the empty path, gave the Leaf
C13_Witness ==
    /\ tlast.op = "get"
    /\ tlast.pre # trule.root
    /\ is_leaf(tlast.pre)
    /\ tlast.path = <<>>
    /\ tlast.result = SomeNode(tlast.pre)

\* C14: add_child_at_path(path, n) returns true if and only if path resolves
\* to a Group; when it returns false (the path resolves to a Leaf, an index is
\* out of range, or the path goes through a Leaf) the whole tree is unchanged.
ResolvesToGroup(root, path) ==
    Resolvable(root, path) /\ is_group(Reached(root, path))

C14_AddIffGroup ==
    tlast.op = "add" =>
       /\ tlast.ok <=> ResolvesToGroup(tlast.pre, tlast.path)
       /\ ~tlast.ok => trule.root = tlast.pre

\* an add whose path resolves to a Leaf
C14_Witness ==
    /\ tlast.op = "add"
    /\ ~tlast.ok
    /\ Resolvable(tlast.pre, tlast.path)
    /\ is_leaf(Reached(tlast.pre, tlast.path))
    /\ trule.root = tlast.pre

\* C15: delete_at_path(path) with a non-empty path returns true if and only
\* if the parent path (all but the last index) resolves to a Group and the
\* last index is within that Group's children; in every other case it returns
\* false and the whole tree is unchanged.
ParentPath(path) == SubSeq(path, 1, Len(path) - 1)

LastIndex(path) == path[Len(path)]

C15_DeleteIffChild ==
    (tlast.op = "delete" /\ tlast.path # <<>>) =>
       /\ tlast.ok <=>
             /\ ResolvesToGroup(tlast.pre, ParentPath(tlast.path))
             /\ LastIndex(tlast.path) < Len(Reached(tlast.pre, ParentPath(tlast.path)).children)
       /\ ~tlast.ok => trule.root = tlast.pre

\* a delete just past the end of a Group that has children
C15_Witness ==
    /\ tlast.op = "delete"
    /\ tlast.path # <<>>
    /\ ~tlast.ok
    /\ ResolvesToGroup(tlast.pre, ParentPath(tlast.path))
    /\ Reached(tlast.pre, ParentPath(tlast.path)).children # <<>>
    /\ LastIndex(tlast.path) = Len(Reached(tlast.pre, ParentPath(tlast.path)).children)
    /\ trule.root = tlast.pre

\* C16: a successful delete_at_path removes exactly the addressed node with
\* all of its descendants: the nodes of the tree afterwards are those before
\* minus the deleted subtree, and every remaining node keeps its id, operator,
\* operands and, but for the parent's shortened list, its children.
NodeById(root, id) ==
    NodeAt(root, CHOOSE q \in ValidPaths(root) : NodeAt(root, q).id = id)

\* a node with its children replaced by the list of their ids
Shallow(node) ==
    IF is_leaf(node) THEN node
    ELSE [node EXCEPT !.children = [i \in DOMAIN node.children |-> node.children[i].id]]

C16_DeleteSubtree ==
    (tlast.op = "delete" /\ tlast.ok) =>
       LET pre == tlast.pre
           post == trule.root
           gone == Reached(pre, tlast.path)
           parent == Reached(pre, ParentPath(tlast.path))
           i == LastIndex(tlast.path) + 1
       IN /\ NodeIds(post) = NodeIds(pre) \ NodeIds(gone)
          /\ Cardinality(ValidPaths(post)) =
                Cardinality(ValidPaths(pre)) - Cardinality(ValidPaths(gone))
          /\ \A id \in NodeIds(post) :
                IF id = parent.id
                THEN Shallow(NodeById(post, id)) =
                        [Shallow(parent) EXCEPT !.children =
                            SubSeq(@, 1, i - 1) \o SubSeq(@, i + 1, Len(@))]
                ELSE Shallow(NodeById(post, id)) = Shallow(NodeById(pre, id))

\* a Group with a child was deleted and a sibling of it remains
C16_Witness ==
    /\ tlast.op = "delete"
    /\ tlast.ok
    /\ is_group(Reached(tlast.pre, tlast.path))
    /\ Reached(tlast.pre, tlast.path).children # <<>>
    /\ trule.root.children # <<>>
    /\ NodeIds(trule.root) # NodeIds(tlast.pre)

\* C17: in every reachable state of the store, after any sequence of
\* add-condition, add-group, delete-node and set-operator handler calls with
\* arbitrary path tokens, the Rule's root is a Group, never a Leaf, and only
\* Group nodes have children.
RECURSIVE OnlyGroupsHaveChildren(_)
OnlyGroupsHaveChildren(node) ==
    IF is_group(node)
    THEN /\ DOMAIN node = {"type", "id", "operator", "children"}
         /\ \A i \in DOMAIN node.children : OnlyGroupsHaveChildren(node.children[i])
    ELSE /\ is_leaf(node)
         /\ DOMAIN node = {"type", "id", "left", "operator", "right"}

C17_RootIsGroup ==
    /\ store.some
    /\ is_group(store.val.root)
    /\ ~is_leaf(store.val.root)
    /\ OnlyGroupsHaveChildren(store.val.root)
    /\ \A p \in Procs : local[p].some =>
          is_group(local[p].val.root) /\ OnlyGroupsHaveChildren(local[p].val.root)

\* a Leaf was added, an operator was set to OR, and then a delete with a
\* malformed token was served
C17_Witness ==
    /\ nreq = 3
    /\ nwrites = 3
    /\ pc[1] = "done"
    /\ req[1].handler = "delete_node"
    /\ req[1].path \in MalformedTokens
    /\ store.val.root.operator = "Or"
    /\ \E i \in DOMAIN snap[1].val.root.children : is_leaf(snap[1].val.root.children[i])

\* C18: once the RuleStore is constructed, get_rule returns a present Rule in
\* every reachable state: no handler ever stores an absent Rule, so no
\* handler ever takes its "Rule not found" branch.
C18_RuleAlwaysPresent ==
    /\ get_rule(store).some
    /\ \A p \in Procs :
          /\ pc[p] \in {"read", "worked", "done"} => snap[p].some
          /\ resp[p].kind # "not_found"

\* a handler that read after another's update_rule, and wrote in its turn
C18_Witness ==
    \E p \in Procs :
        /\ pc[p] = "done"
        /\ seenW[p] >= 1
        /\ snap[p].some
        /\ wroteAt[p] > seenW[p]
        /\ resp[p].kind = "rule_view"
        /\ get_rule(store).some

\* C19: get_rule returns a copy independent of the stored value: mutating
\* the returned Rule (adding, deleting or re-operating nodes) does not change
\* what a later get_rule returns until update_rule is called with it.
C19_CloneIndependent ==
    \A p \in Procs :
        (pc[p] = "worked" /\ nwrites = seenW[p]) =>
            /\ get_rule(store) = snap[p]
            /\ \A q \in Procs : pc[q] = "read" /\ seenW[q] = nwrites => snap[q] = snap[p]

\* one handler has changed its clone and not written yet, the other's
\* get_rule returned the Rule as it was
C19_Witness ==
    \E p, q \in Procs :
        /\ p # q
        /\ pc[p] = "worked"
        /\ nwrites = seenW[p]
        /\ local[p] # snap[p]
        /\ local[p].val.root.children # snap[p].val.root.children
        /\ pc[q] = "read"
        /\ snap[q] = snap[p]
        /\ get_rule(store) = snap[p]

\* C20: parse_path splits the token on '-', always discards the first
\* segment, whatever it is, and returns, in order, exactly the remaining
\* segments that parse as non-negative integers (of the machine's word size),
\* silently dropping every other segment: "0-x-2" decodes to [2] and "7-1"
\* decodes to [1].
DashPositions(token) == {i \in DOMAIN token : token[i] = "-"}

SegmentCount(token) == Cardinality(DashPositions(token)) + 1

\* where segment k begins and ends: after the (k-1)th dash, before the kth
SegmentStart(token, k) ==
    IF k = 1 THEN 1
    ELSE 1 + CHOOSE i \in DashPositions(token) :
                 Cardinality({j \in DashPositions(token) : j < i}) = k - 2

SegmentEnd(token, k) ==
    IF k = SegmentCount(token) THEN Len(token)
    ELSE (CHOOSE i \in DashPositions(token) :
              Cardinality({j \in DashPositions(token) : j < i}) = k - 1) - 1

Segment(token, k) == SubSeq(token, SegmentStart(token, k), SegmentEnd(token, k))

\* the digits of a segment, a leading '+' set aside
NumeralOf(seg) == IF seg # <<>> /\ seg[1] = "+" THEN Tail(seg) ELSE seg

IsNumber(seg) ==
    /\ NumeralOf(seg) # <<>>
    /\ \A i \in DOMAIN NumeralOf(seg) :
          NumeralOf(seg)[i] \in {"0", "1", "2", "3", "4", "5", "6", "7", "8", "9"}
    /\ FitsUsize(NumeralOf(seg))

RECURSIVE Pow10(_)
Pow10(n) == IF n = 0 THEN 1 ELSE 10 * Pow10(n - 1)

RECURSIVE SumOver(_, _)
SumOver(f, S) ==
    IF S = {} THEN 0 ELSE LET x == CHOOSE x \in S : TRUE IN f[x] + SumOver(f, S \ {x})

NumberOf(seg) ==
    LET ds == NumeralOf(seg) IN
    SumOver([i \in DOMAIN ds |-> DigitVal(ds[i]) * Pow10(Len(ds) - i)], DOMAIN ds)

\* the segments after the first that are numbers, by position
KeptSegments(token) == {k \in 2..SegmentCount(token) : IsNumber(Segment(token, k))}

\* the jth of them
KeptSegment(token, j) ==
    CHOOSE k \in KeptSegments(token) :
        Cardinality({m \in KeptSegments(token) : m < k}) = j - 1

C20_ParsePath ==
    cpc \in {"parsed", "reencoded"} =>
        /\ Len(cdecoded) = Cardinality(KeptSegments(ctoken))
        /\ \A j \in DOMAIN cdecoded :
              cdecoded[j] = NumberOf(Segment(ctoken, KeptSegment(ctoken, j)))
        /\ ctoken = <<"0", "-", "x", "-", "2">> => cdecoded = <<2>>
        /\ ctoken = <<"7", "-", "1">> => cdecoded = <<1>>

C20_Witness ==
    /\ cpc = "parsed"
    /\ ctoken = <<"0", "-", "x", "-", "2">>
    /\ cdecoded = <<2>>

\* C21: for every path token s of the grammar "0" or "0-" int ("-" int)*
\* with canonical decimal indices, as the tree renderer emits them,
\* path_to_string(parse_path(s)) equals s.
IsCanonicalIndex(seg) ==
    /\ seg # <<>>
    /\ \A i \in DOMAIN seg :
          seg[i] \in {"0", "1", "2", "3", "4", "5", "6", "7", "8", "9"}
    /\ Len(seg) > 1 => seg[1] # "0"
    /\ FitsUsize(seg)

IsRendererToken(token) ==
    /\ token # <<>>
    /\ Segment(token, 1) = <<"0">>
    /\ \A k \in 2..SegmentCount(token) : IsCanonicalIndex(Segment(token, k))

C21_EncodeDecode ==
    (cpc = "reencoded" /\ IsRendererToken(ctoken)) => cencoded = ctoken

\* the token "0-10-1": a two-digit index and a one-digit one
C21_Witness ==
    /\ cpc = "reencoded"
    /\ ctoken = <<"0", "-", "1", "0", "-", "1">>
    /\ IsRendererToken(ctoken)
    /\ cdecoded = <<10, 1>>
    /\ cencoded = ctoken

\* C22: the numeric/string classification of a Field is the same at every
\* call site: for every Field token, get_operators_for_field and
\* get_operators_and_right_hint (with left_type = field) return the same
\* operator list; get_value_input_for_field offers a number input exactly for
\* the Fields that get the six-comparison set; and get_operators_for_value
\* gives a numeric literal the same set as a numeric Field and a non-numeric
\* literal the same set as a string Field.
AnswerOf(op) == ranswers[op].val

Asked(ops) == \A op \in ops : ranswers[op].some

SixComparisons(response) == Offers(response, NumericSet)

C22_SameClassification ==
    rquery.field \in FieldTokens =>
       /\ (Asked({"get_operators_for_field", "get_operators_and_right_hint"})
             /\ rquery.left_type \in {NoneStr, SomeStr("field")}
             /\ rquery.left_field = SomeStr(rquery.field)) =>
             AnswerOf("get_operators_for_field").operators
                = AnswerOf("get_operators_and_right_hint").operators
       /\ Asked({"get_operators_for_field", "get_value_input_for_field"}) =>
             (AnswerOf("get_value_input_for_field").type = "number"
                <=> SixComparisons(AnswerOf("get_operators_for_field")))
       /\ (Asked({"get_operators_for_field", "get_operators_for_value"})
             /\ rquery.left_value # NoneStr) =>
             LET literal == rquery.left_value[1]
                 numeric == literal \in {<<"4", "2">>, <<"4", ".", "2">>, <<"n", "a", "n">>}
                 ofField == AnswerOf("get_operators_for_field").operators
                 ofValue == AnswerOf("get_operators_for_value").operators
             IN /\ (numeric /\ rquery.field \in NumericFieldTokens) => ofValue = ofField
                /\ (~numeric /\ rquery.field \in StringFieldTokens) => ofValue = ofField
                /\ (numeric /\ rquery.field \in StringFieldTokens) => ofValue # ofField
                /\ (~numeric /\ rquery.field \in NumericFieldTokens) => ofValue # ofField

\* all four resolvers were asked about transaction_count_24h and "42"
C22_Witness ==
    /\ Asked(ResolverOps)
    /\ rquery.field = "transaction_count_24h"
    /\ rquery.left_field = SomeStr("transaction_count_24h")
    /\ rquery.left_value = SomeStr(<<"4", "2">>)
    /\ AnswerOf("get_value_input_for_field").type = "number"
    /\ AnswerOf("get_operators_for_value").operators
          = AnswerOf("get_operators_for_field").operators
    /\ AnswerOf("get_operators_and_right_hint").operators
          = AnswerOf("get_operators_for_field").operators

\* C23: the add-group handler with a path that resolves to a Group appends a
\* new Group whose operator is AND and whose child list is empty, whatever
\* the operator of the target Group; add-group never creates any other kind
\* of node.
IsEmptyAndGroup(node) ==
    /\ is_group(node)
    /\ node.operator = "And"
    /\ node.children = <<>>

\* the nodes of the tree under after that are not in the tree under before
NewNodesOf(before, after) ==
    {NodeAt(after, q) : q \in {v \in ValidPaths(after) :
                                  NodeAt(after, v).id \notin NodeIds(before)}}

C23_AddGroupIsEmptyAnd ==
    \A p \in Procs :
        (pc[p] \in {"worked", "done"} /\ req[p].handler = "add_group") =>
            LET before == snap[p].val.root
                after == local[p].val.root
                path == parse_path(req[p].path)
            IN /\ \A node \in NewNodesOf(before, after) : IsEmptyAndGroup(node)
               /\ IF ResolvesToGroup(before, path)
                  THEN LET target == Reached(before, path)
                           result == Reached(after, path)
                       IN /\ Len(result.children) = Len(target.children) + 1
                          /\ SubSeq(result.children, 1, Len(target.children))
                                = target.children
                          /\ IsEmptyAndGroup(result.children[Len(result.children)])
                          /\ result.operator = target.operator
                          /\ Cardinality(NewNodesOf(before, after)) = 1
                  ELSE after = before

\* add-group on a root whose operator was set to OR before
C23_Witness ==
    /\ pc[1] = "done"
    /\ req[1].handler = "add_group"
    /\ req[1].path = <<"0">>
    /\ snap[1].val.root.operator = "Or"
    /\ store = local[1]
    /\ Len(store.val.root.children) = Len(snap[1].val.root.children) + 1
    /\ IsEmptyAndGroup(store.val.root.children[Len(store.val.root.children)])

\* C24: every Field and every Operator round-trips through its wire token:
\* decoding as_str(x) with the serde decoder the handlers use yields x; and
\* the eight Field tokens and the eight Operator tokens are pairwise
\* distinct.
PairwiseDistinct(seq) ==
    \A i, j \in DOMAIN seq : i # j => seq[i] # seq[j]

C24_WireRoundTrip ==
    /\ vout.field.some => vout.field.val = [ok |-> TRUE, val |-> vin.field]
    /\ vout.operator.some => vout.operator.val = [ok |-> TRUE, val |-> vin.operator]
    /\ Len(Field_all) = 8
    /\ Len(Operator_all) = 8
    /\ PairwiseDistinct(Field_all)
    /\ PairwiseDistinct(Operator_all)
    /\ PairwiseDistinct([i \in DOMAIN Field_all |-> Field_as_str(Field_all[i])])
    /\ PairwiseDistinct([i \in DOMAIN Operator_all |-> Operator_as_str(Operator_all[i])])

\* the Field whose token is not the snake_case of its name, and an Operator
C24_Witness ==
    /\ vin.field = "TransactionCount24h"
    /\ vin.operator = "GreaterThanOrEqual"
    /\ vtok.field = [some |-> TRUE, val |-> "transaction_count_24h"]
    /\ vtok.operator = [some |-> TRUE, val |-> "greater_than_or_equal"]
    /\ vout.field = [some |-> TRUE, val |-> [ok |-> TRUE, val |-> "TransactionCount24h"]]
    /\ vout.operator = [some |-> TRUE, val |-> [ok |-> TRUE, val |-> "GreaterThanOrEqual"]]

\* the server renders a number input for the token
ServerSaysNumeric(token) ==
    get_value_input_for_field([field |-> token]).type = "number"

\* C29: the numeric-field list embedded in the add-condition form holds the
\* wire token of every numeric-class Field (transaction_amount, user_age,
\* transaction_count_24h, account_age) and of no string-class Field, so the
\* form's number/text choice for the right-hand input agrees with the
\* server's numeric/string partition for every Field.
C29_FormListMatchesServer ==
    /\ vtok.field.some =>
          (vtok.field.val \in numericFields <=> vtok.field.val \in NumericFieldTokens)
    /\ vout.leftFieldType.some =>
          (vout.leftFieldType.val = "number" <=> ServerSaysNumeric(vtok.field.val))

\* the path a mutation request carries does not address, in the Rule the
\* handler read, a node its operation applies to
InvalidAgainst(request, rule) ==
    LET xs == parse_path(request.path) IN
    CASE request.handler \in {"add_condition", "add_group", "update_operator"} ->
           ~ResolvesToGroup(rule.root, xs)
      [] request.handler = "delete_node" ->
           \/ xs = <<>>
           \/ ~ResolvesToGroup(rule.root, ParentPath(xs))
           \/ LastIndex(xs) >= Len(Reached(rule.root, ParentPath(xs)).children)
      [] OTHER -> FALSE

\* C25: in every interleaving of handlers, a mutation handler (add-condition,
\* add-group, delete-node, set-operator) whose decoded path is invalid
\* against the snapshot it read is a no-op on the store: the stored Rule
\* right after its write-back equals the stored Rule right before it.
C25_InvalidPathNoOp ==
    [][\A p \in Procs :
          (/\ pc[p] = "worked"
           /\ pc'[p] = "done"
           /\ InvalidAgainst(req[p], snap[p].val))
          => store' = store]_vars

\* C26: the set-operator handler changes only the operator of the Group the
\* path resolves to: that Group's id and children, and every other node of
\* the tree, are unchanged; when the path resolves to a Leaf or to nothing,
\* the tree is unchanged.
C26_SetOperatorFrame ==
    (/\ pc[1] \in {"worked", "done"}
     /\ req[1].handler = "update_operator"
     /\ snap[1].some) =>
       LET xs == parse_path(req[1].path)
           before == snap[1].val
           after == local[1].val
           asked == IF req[1].opform = <<"or">> THEN "Or" ELSE "And"
       IN /\ pc[1] = "done" => store = local[1]
          /\ [after EXCEPT !.root = before.root] = before
          /\ IF ResolvesToGroup(before.root, xs)
             THEN /\ ValidPaths(after.root) = ValidPaths(before.root)
                  /\ \A q \in ValidPaths(before.root) :
                        IF q = xs
                        THEN /\ NodeAt(after.root, q).operator = asked
                             /\ NodeAt(after.root, q) =
                                   [NodeAt(before.root, q) EXCEPT !.operator = asked]
                        ELSE Shallow(NodeAt(after.root, q)) = Shallow(NodeAt(before.root, q))
             ELSE after = before

\* the operator of a Group below the root was changed and stored
C26_Witness ==
    /\ pc[1] = "done"
    /\ req[1].handler = "update_operator"
    /\ snap[1].some
    /\ parse_path(req[1].path) # <<>>
    /\ ResolvesToGroup(snap[1].val.root, parse_path(req[1].path))
    /\ local[1] # snap[1]
    /\ store = local[1]

\* p is a prefix of q
IsPrefix(p, q) == Len(p) <= Len(q) /\ SubSeq(q, 1, Len(p)) = p

\* q still resolves in the tree after the call, to the node with the id it
\* resolved to before the call
StillResolves(q) ==
    /\ Resolvable(trule.root, q)
    /\ Reached(trule.root, q).id = Reached(tlast.pre, q).id

\* C27: mutations invalidate only paths at or after the mutation point:
\* after a successful add_child_at_path every path that resolved before still
\* resolves to the node with the same id; after a successful
\* delete_at_path(parent + [i]) every previously valid path that does not
\* have parent + [j] with j >= i as a prefix still resolves to the node with
\* the same id.
C27_PathsSurvive ==
    /\ (tlast.op = "add" /\ tlast.ok) =>
          \A q \in ValidPaths(tlast.pre) : StillResolves(q)
    /\ (tlast.op = "delete" /\ tlast.ok) =>
          \A q \in ValidPaths(tlast.pre) :
             (/\ Resolvable(tlast.pre, q)
              /\ ~\E j \in 0..MaxIndex :
                    /\ j >= LastIndex(tlast.path)
                    /\ IsPrefix(Append(ParentPath(tlast.path), j), q))
             => StillResolves(q)

\* a delete of a second child: its elder sibling is still at its path
C27_Witness ==
    /\ tlast.op = "delete"
    /\ tlast.ok
    /\ LastIndex(tlast.path) = 1
    /\ Resolvable(tlast.pre, Append(ParentPath(tlast.path), 0))
    /\ StillResolves(Append(ParentPath(tlast.path), 0))
    /\ ~Resolvable(trule.root, tlast.path)

\* the session kept under k has outlived its validity at the clock's reading
Expired(k) == now - screated[k] > SESSION_DURATION

\* the entries of the map before the step that are in the set keep, unaltered
KeepsExactly(keep) ==
    /\ DOMAIN sessions' = keep
    /\ \A k \in keep : sessions'[k] = sessions[k]

\* C28: session eviction removes exactly the expired entries: get_session on
\* an expired id removes that one entry and returns None, cleanup_expired
\* removes every expired entry, and neither operation ever removes or alters
\* a session that has not expired.
C28_EvictsExactlyExpired ==
    [][/\ (slast' # slast /\ slast'.op = "get") =>
            LET sid == slast'.sid IN
            IF sid \in DOMAIN sessions /\ Expired(sid)
            THEN /\ ~slast'.found.some
                 /\ KeepsExactly(DOMAIN sessions \ {sid})
            ELSE /\ KeepsExactly(DOMAIN sessions)
                 /\ sid \in DOMAIN sessions =>
                       slast'.found = [some |-> TRUE, val |-> sessions[sid]]
       /\ (slast' # slast /\ slast'.op = "cleanup") =>
            KeepsExactly({k \in DOMAIN sessions : ~Expired(k)})]_vars

\* a lookup of an expired id took that entry out of the map and left the
\* entry of a session that has not expired
C28_Witness ==
    /\ slast.op = "get"
    /\ slast.at = now
    /\ slast.sid \in DOMAIN screated
    /\ slast.sid \notin sdeleted
    /\ slast.sid \notin DOMAIN sessions
    /\ Expired(slast.sid)
    /\ ~slast.found.some
    /\ \E k \in DOMAIN sessions : ~Expired(k)

\* C30: every handler invocation eventually completes under fair scheduling:
\* get_rule and update_rule each acquire and release the single store mutex
\* inside the call, no handler holds it across its read and its write, and
\* no interleaving of any number of handlers deadlocks.
C30_HandlersComplete ==
    /\ [](\A p \in LockProcs :
            /\ mutex = p => pc[p] \in {"get_rule", "update_rule"}
            /\ pc[p] \in {"get_rule", "update_rule"} => mutex = p)
    /\ [](mutex \in {Unlocked} \cup LockProcs)
    /\ \A p \in LockProcs : (pc[p] = "arrived") ~> (pc[p] = "done")

\* a handler is through its write while another waits for the mutex a third
\* one holds
C30_Witness ==
    \E p, q, r \in LockProcs :
        /\ pc[p] = "done"
        /\ local[p].some
        /\ store = local[p]
        /\ pc[q] = "worked"
        /\ pc[r] = "get_rule"
        /\ mutex = r

\* the four fields of a Rule that no handler is meant to touch, as
\* RuleStore::new sets them
HasDefaultHeader(rule) ==
    /\ rule.id = 0
    /\ rule.name = "Fraud Detection Rule"
    /\ rule.description = "Main fraud detection rule for transactions"
    /\ rule.action = "flag_for_review"

\* the errors a sequence of messages holds
ErrorsIn(errors) == {errors[i] : i \in DOMAIN errors}

\* C31: no handler changes the Rule's id, name, description or action: after
\* any sequence of handler calls these four fields equal those of the default
\* Rule, so the stored Rule's name is never empty and validate never reports
\* "Rule name cannot be empty".
C31_HeaderUnchanged ==
    /\ store.some
    /\ HasDefaultHeader(store.val)
    /\ store.val.name # ""
    /\ \A r \in written : HasDefaultHeader(r)
    /\ (pc[1] = "done" /\ req[1].handler = "validate_rule") =>
          "Rule name cannot be empty" \notin ErrorsIn(resp[1].errors)

\* validate ran on a Rule that handlers had changed and found errors, none of
\* them about the name
C31_Witness ==
    /\ pc[1] = "done"
    /\ req[1].handler = "validate_rule"
    /\ nwrites >= 2
    /\ store # RuleStore_new
    /\ resp[1].kind = "invalid"
    /\ resp[1].errors # <<>>
    /\ HasDefaultHeader(store.val)

\* C32: for every tree, each path token the renderer emits for a node
\* resolves back to that same node: get_at_path(root, parse_path(token)) is
\* the node the token was rendered for; a delete control is emitted for every
\* node except the root.
C32_RenderedPathsResolve ==
    tlast.op = "render" =>
       LET html == tlast.result IN
       /\ Len(html) = Cardinality(ValidPaths(tlast.pre))
       /\ html[1].node = tlast.pre
       /\ \A i \in DOMAIN html :
             /\ get_at_path(tlast.pre, parse_path(html[i].path)) = SomeNode(html[i].node)
             /\ "delete" \in html[i].controls <=> i # 1
       /\ \A i, j \in DOMAIN html : i # j => html[i].path # html[j].path

\* a tree with a second child that has a child of its own was rendered
C32_Witness ==
    /\ tlast.op = "render"
    /\ \E i \in DOMAIN tlast.result :
          /\ tlast.result[i].path = <<"0", "-", "1", "-", "0">>
          /\ "delete" \in tlast.result[i].controls
          /\ tlast.result[i].node = tlast.pre.children[2].children[1]

\* the header has a cookie named session_id whose value is the id of a
\* session the store holds and the clock has not passed its expiry
CarriesLiveSession(cookie) ==
    /\ cookie.some
    /\ \E i \in DOMAIN cookie.val :
          /\ Len(cookie.val[i]) = 2
          /\ cookie.val[i][1] = "session_id"
          /\ cookie.val[i][2] \in DOMAIN sessions
          /\ now <= screated[cookie.val[i][2]] + SESSION_DURATION

RedirectedToLogin(response) ==
    response.kind \in {"redirect_login", "hx_redirect_login"}

\* C33: a request to a protected route (the rule view, every tree mutation,
\* validate) reaches its handler only if its cookie carries a session_id for
\* which the session store holds a non-expired session at the time of the
\* check; otherwise the request is redirected to /login and the stored Rule
\* is not read or modified.
C33_ProtectedRoutes ==
    /\ [][(pc[1] = "idle" /\ pc'[1] # "idle") =>
            /\ pc'[1] = "read" => CarriesLiveSession(req'[1].cookie)
            /\ ~CarriesLiveSession(req'[1].cookie) => pc'[1] # "read"
            /\ pc'[1] # "read" =>
                  /\ pc'[1] = "done"
                  /\ RedirectedToLogin(resp'[1])
                  /\ snap'[1] = NoRule
                  /\ store' = store]_vars
    /\ [](RedirectedToLogin(resp[1]) =>
            /\ pc[1] = "done"
            /\ snap[1] = NoRule
            /\ local[1] = NoRule
            /\ wroteAt[1] = 0)
    /\ [][RedirectedToLogin(resp[1]) => store' = store]_vars

\* a request with the cookie of a session that has expired was redirected,
\* after a request of the same session had changed the Rule
C33_Witness ==
    /\ pc[1] = "done"
    /\ RedirectedToLogin(resp[1])
    /\ req[1].cookie = Header(<<<<"session_id", 0>>>>)
    /\ 0 \in DOMAIN screated
    /\ now > screated[0] + SESSION_DURATION
    /\ 0 \notin DOMAIN sessions
    /\ nwrites = 1
    /\ store # RuleStore_new
====
